---- MODULE Spec2Model ----
(***************************************************************************)
(* uvrepin (src/src/uvrepin/main.py): repin the direct dependencies of a   *)
(* pyproject.toml to the latest exact versions through the uv tool.        *)
(*                                                                         *)
(* The module models main() as a state machine whose steps are the         *)
(* stretches of code between two external calls (uv processes, the PyPI    *)
(* index), together with the pure helpers main() and the conflict code     *)
(* use.  Text is modelled as sequences of one-character strings wherever   *)
(* the code looks inside it (pep503, lower, strip); group names, versions  *)
(* and markers are only compared for equality and stay atomic strings.     *)
(* Python's None is NoneVal; "no exit status yet" is NoExit.               *)
(*                                                                         *)
(* main() calls none of the conflict functions.  They are modelled as      *)
(* called on their own: SpecAlign runs align_workspace_members, and        *)
(* SpecTargets, SpecParser and SpecReq apply determine_target_versions,    *)
(* parse_workspace_conflict and parse_req to arguments drawn from bounded  *)
(* sets.  SpecLookup runs main() over manifests with two pinned packages.  *)
(* SpecHelp, SpecSite, SpecBatch and SpecGather apply                      *)
(* show_manual_resolution_help, find_package_location_in_member,           *)
(* query_pypi_batch and gather_direct; SpecPlan runs the plan loop of      *)
(* main(); SpecRuns is main() and the alignment under weak fairness.       *)
(***************************************************************************)
EXTENDS Integers, Sequences, FiniteSets, TLC

NoneVal == "<None>"
NoExit == -1

(***************************************************************************)
(* Bounds of the model.                                                    *)
(***************************************************************************)
\* number of requirement lines in the whole manifest
MaxDeps == 2
\* exit codes a uv process can return are 0..MaxExit
MaxExit == 2

(***************************************************************************)
(* Generic helpers.                                                        *)
(***************************************************************************)
Range(s) == {s[i] : i \in 1..Len(s)}

BoundedSeq(S, n) == UNION {[1..k -> S] : k \in 0..n}

Perms(S) == {p \in [1..Cardinality(S) -> S] : Range(p) = S}

\* Python dict with insertion order: a sequence of [key, val] with unique keys
DictHas(dct, k) == \E i \in 1..Len(dct) : dct[i].key = k

DictSet(dct, k, v) ==
    IF DictHas(dct, k)
    THEN [i \in 1..Len(dct) |-> IF dct[i].key = k THEN [key |-> k, val |-> v] ELSE dct[i]]
    ELSE Append(dct, [key |-> k, val |-> v])

UpperChars == <<"A","B","C","D","E","F","G","H","I","J","K","L","M",
                "N","O","P","Q","R","S","T","U","V","W","X","Y","Z">>
LowerChars == <<"a","b","c","d","e","f","g","h","i","j","k","l","m",
                "n","o","p","q","r","s","t","u","v","w","x","y","z">>

LowerChar(c) ==
    IF \E i \in 1..26 : UpperChars[i] = c
    THEN LowerChars[CHOOSE i \in 1..26 : UpperChars[i] = c]
    ELSE c

\* str.lower()
Lower(s) == [i \in 1..Len(s) |-> LowerChar(s[i])]

IsSpace(c) == c \in {" ", "\t", "\n"}

RECURSIVE LStrip(_)
LStrip(s) == IF s # <<>> /\ IsSpace(Head(s)) THEN LStrip(Tail(s)) ELSE s

RECURSIVE RStrip(_)
RStrip(s) ==
    IF s # <<>> /\ IsSpace(s[Len(s)]) THEN RStrip(SubSeq(s, 1, Len(s) - 1)) ELSE s

\* str.strip()
Strip(s) == RStrip(LStrip(s))

(***************************************************************************)
(* pep503: re.sub(r"[-_.]+", "-", name).lower()                            *)
(***************************************************************************)
IsSep(c) == c \in {"-", "_", "."}

RECURSIVE DropSeps(_)
DropSeps(s) == IF s # <<>> /\ IsSep(Head(s)) THEN DropSeps(Tail(s)) ELSE s

RECURSIVE CollapseSeps(_)
CollapseSeps(s) ==
    IF s = <<>> THEN <<>>
    ELSE IF IsSep(Head(s)) THEN <<"-">> \o CollapseSeps(DropSeps(s))
    ELSE <<Head(s)>> \o CollapseSeps(Tail(s))

pep503(name) == Lower(CollapseSeps(name))

(***************************************************************************)
(* Requirement lines.  A line is kept as the fields the regular expression *)
(* of parse_req splits it into: name, extras, operator, version, marker.   *)
(***************************************************************************)
parse_req(req) ==
    [name |-> req.name, extras |-> req.extras,
     pinned |-> IF req.op = "==" THEN req.ver ELSE NoneVal,
     marker |-> req.marker]

\* the record gather_direct stores for one requirement line
DepRecord(r) ==
    LET p == parse_req(r)
    IN [raw |-> r, name |-> p.name, extras |-> p.extras,
        pinned |-> p.pinned, marker |-> p.marker]

DepRecords(arr) == [i \in 1..Len(arr) |-> DepRecord(arr[i])]

(***************************************************************************)
(* gather_direct: (groups, is_optional).  groups is a dict from group name *)
(* (NoneVal for the main list) to dependency records, is_optional a dict   *)
(* from group name to BOOLEAN.  A dependency-groups table is read after    *)
(* the optional-dependencies table and writes the same two dicts.          *)
(***************************************************************************)
RECURSIVE GatherTable(_, _, _)
GatherTable(acc, table, isOpt) ==
    IF table = <<>> THEN acc
    ELSE LET e == Head(table)
             group == DepRecords(e.val)
             nxt == IF group # <<>>
                    THEN [out |-> DictSet(acc.out, e.key, group),
                          is_optional |-> DictSet(acc.is_optional, e.key, isOpt)]
                    ELSE acc
         IN GatherTable(nxt, Tail(table), isOpt)

gather_direct(d) ==
    LET main == IF d.dependencies # <<>>
                THEN <<[key |-> NoneVal, val |-> DepRecords(d.dependencies)]>>
                ELSE <<>>
        a0 == [out |-> main, is_optional |-> <<>>]
        a1 == GatherTable(a0, d.optional, TRUE)
    IN GatherTable(a1, d.groups, FALSE)

DictGetBool(dct, k, default) ==
    IF DictHas(dct, k) THEN (CHOOSE e \in Range(dct) : e.key = k).val ELSE default

(***************************************************************************)
(* Manifests of the model.  A manifest is built from at most MaxDeps       *)
(* requirement lines, each placed in [project].dependencies, in an         *)
(* optional-dependencies list or in a dependency-groups list; tables keep  *)
(* the order in which their keys first appear in the file.                 *)
(***************************************************************************)
Chars(name) ==
    CASE name = "F_.o" -> <<"F", "_", ".", "o">>
      [] name = "f-o"  -> <<"f", "-", "o">>
      [] name = "bar"  -> <<"b", "a", "r">>
      [] name = "flake8" -> <<"f", "l", "a", "k", "e", "8">>
      [] name = "Flake8" -> <<"F", "l", "a", "k", "e", "8">>
      [] name = "pytest" -> <<"p", "y", "t", "e", "s", "t">>

Reqs ==
    { [name |-> Chars("F_.o"), extras |-> "", op |-> "==", ver |-> "1.0", marker |-> NoneVal],
      [name |-> Chars("f-o"), extras |-> "[x]", op |-> "==", ver |-> "2.0", marker |-> "m"],
      [name |-> Chars("bar"), extras |-> "", op |-> ">=", ver |-> "1.0", marker |-> NoneVal] }

Sections ==
    { [table |-> "dependencies", key |-> NoneVal],
      [table |-> "optional", key |-> "dev"],
      [table |-> "groups", key |-> "dev"],
      [table |-> "groups", key |-> "test"] }

Decls == [sec : Sections, req : Reqs]

TableAdd(table, k, r) ==
    IF DictHas(table, k)
    THEN [i \in 1..Len(table) |->
            IF table[i].key = k
            THEN [key |-> k, val |-> Append(table[i].val, r)]
            ELSE table[i]]
    ELSE Append(table, [key |-> k, val |-> <<r>>])

RECURSIVE MkData(_, _)
MkData(acc, decls) ==
    IF decls = <<>> THEN acc
    ELSE LET dcl == Head(decls)
             nxt == CASE dcl.sec.table = "dependencies" ->
                            [acc EXCEPT !.dependencies = Append(@, dcl.req)]
                      [] dcl.sec.table = "optional" ->
                            [acc EXCEPT !.optional = TableAdd(@, dcl.sec.key, dcl.req)]
                      [] dcl.sec.table = "groups" ->
                            [acc EXCEPT !.groups = TableAdd(@, dcl.sec.key, dcl.req)]
         IN MkData(nxt, Tail(decls))

EmptyData == [exists |-> TRUE, dependencies |-> <<>>, optional |-> <<>>, groups |-> <<>>]

MissingData == [exists |-> FALSE, dependencies |-> <<>>, optional |-> <<>>, groups |-> <<>>]

Manifests == {MkData(EmptyData, ds) : ds \in BoundedSeq(Decls, MaxDeps)} \cup {MissingData}

Versions == {"1.0", "2.0"}

(***************************************************************************)
(* Diagnostics of a failed uv call.  The text is kept as what the code     *)
(* looks for in it: the "No solution found when resolving dependencies"    *)
(* marker and the "Because ... depends on ..." clauses, each with the      *)
(* fields the two patterns of parse_workspace_conflict capture.  A clause  *)
(* of form "A" has the shape of conflict_pattern1, one of form "B" the     *)
(* shape of conflict_pattern2 (with its trailing "are incompatible" part). *)
(***************************************************************************)
Clause(form, m1, e1, p1, v1, m2, e2, p2, v2, tm1, te1, tm2, te2) ==
    [form |-> form, member1 |-> m1, extra1 |-> e1, pkg1 |-> p1, ver1 |-> v1,
     member2 |-> m2, extra2 |-> e2, pkg2 |-> p2, ver2 |-> v2,
     tail_member1 |-> tm1, tail_extra1 |-> te1,
     tail_member2 |-> tm2, tail_extra2 |-> te2]

DiagEmpty == [text |-> FALSE, marker |-> FALSE, clauses |-> <<>>]

DiagOther == [text |-> TRUE, marker |-> FALSE, clauses |-> <<>>]

DiagConflict ==
    [text |-> TRUE, marker |-> TRUE,
     clauses |-> <<Clause("A", "common", "dev", "flake8", "7.2.0",
                          "qluster-sdk", "dev", "flake8", "7.3.0",
                          "", "", "", "")>>]

DiagUnmatched ==
    [text |-> TRUE, marker |-> TRUE,
     clauses |-> <<Clause("A", "common", "dev", "flake8", "7.2.0",
                          "qluster-sdk", "test", "flake8", "7.3.0",
                          "", "", "", "")>>]

Diagnostics == {DiagOther, DiagConflict, DiagUnmatched}

WorkspaceConflict(pkg, extra, m1, v1, m2, v2) ==
    [package_name |-> pkg, extra_name |-> extra,
     conflicts |-> [m \in {m1, m2} |-> IF m = m2 THEN v2 ELSE v1]]

Pattern1Matches(c) == c.form = "A" /\ c.extra1 = c.extra2 /\ c.pkg1 = c.pkg2

Pattern2Matches(c) ==
    /\ c.form = "B"
    /\ c.tail_member1 = c.member1 /\ c.tail_member2 = c.member2
    /\ c.tail_extra1 = c.tail_extra2 /\ c.pkg1 = c.pkg2

RECURSIVE Matches1(_)
Matches1(cs) ==
    IF cs = <<>> THEN <<>>
    ELSE LET c == Head(cs)
         IN (IF Pattern1Matches(c)
             THEN <<WorkspaceConflict(c.pkg1, c.extra1, c.member1, c.ver1, c.member2, c.ver2)>>
             ELSE <<>>) \o Matches1(Tail(cs))

RECURSIVE Matches2(_)
Matches2(cs) ==
    IF cs = <<>> THEN <<>>
    ELSE LET c == Head(cs)
         IN (IF Pattern2Matches(c)
             THEN <<WorkspaceConflict(c.pkg1, c.tail_extra1, c.member1, c.ver1, c.member2, c.ver2)>>
             ELSE <<>>) \o Matches2(Tail(cs))

\* [none |-> TRUE] is Python's None, otherwise list is the returned list
parse_workspace_conflict(stderr) ==
    IF ~stderr.marker
    THEN [none |-> TRUE, list |-> <<>>]
    ELSE [none |-> FALSE, list |-> Matches1(stderr.clauses) \o Matches2(stderr.clauses)]

\* the Conflict Parser extracts one or more Workspace Conflicts
IsConflictDiagnostic(stderr) ==
    LET r == parse_workspace_conflict(stderr) IN ~r.none /\ r.list # <<>>

(***************************************************************************)
(* The operator's side of a conflict: the CI variable and the reply typed  *)
(* at the prompt.                                                          *)
(***************************************************************************)
Str(s) ==
    CASE s = ""      -> <<>>
      [] s = "TRUE"  -> <<"T", "R", "U", "E">>
      [] s = "true"  -> <<"t", "r", "u", "e">>
      [] s = "1"     -> <<"1">>
      [] s = "yes"   -> <<"y", "e", "s">>
      [] s = "0"     -> <<"0">>
      [] s = "y"     -> <<"y">>
      [] s = " Yes " -> <<" ", "Y", "e", "s", " ">>
      [] s = "n"     -> <<"n">>

is_ci_environment(ci) == Lower(ci) \in {Str("true"), Str("1"), Str("yes")}

\* the value prompt_user_for_conflict_resolution returns for a typed reply
prompt_user_for_conflict_resolution(conflicts, response) ==
    IF conflicts = <<>> THEN FALSE
    ELSE Lower(Strip(response)) \in {Str("y"), Str("yes")}

(***************************************************************************)
(* The uv runner and the PyPI index.                                       *)
(***************************************************************************)
\* what a uv process can end with: an exit code and its standard error
ProcResults ==
    {[returncode |-> 0, stderr |-> DiagEmpty]}
        \cup [returncode : 1..MaxExit, stderr : Diagnostics \cup {DiagEmpty}]

\* UvRunner.run: subprocess.run(args, check=check) raises CalledProcessError
\* only when check is set and the exit code is not 0
UvRun(check, proc) ==
    [raised |-> check /\ proc.returncode # 0,
     returncode |-> proc.returncode, stderr |-> proc.stderr]

MapSet(f, k, v) == [x \in (DOMAIN f) \cup {k} |-> IF x = k THEN v ELSE f[x]]

EmptyMap == [x \in {} |-> NoneVal]

\* query_pypi_batch: resp[n] is what query_pypi_latest returns for name n
\* (NoneVal on any failure), order the order in which the futures complete
RECURSIVE query_pypi_batch(_, _, _)
query_pypi_batch(acc, order, resp) ==
    IF order = <<>> THEN acc
    ELSE LET name == Head(order)
             version == resp[name]
         IN query_pypi_batch(
                IF version # NoneVal THEN MapSet(acc, pep503(name), version) ELSE acc,
                Tail(order), resp)

RECURSIVE IndexArgs(_)
IndexArgs(indexes) ==
    IF indexes = <<>> THEN <<>>
    ELSE <<"--index", Head(indexes)>> \o IndexArgs(Tail(indexes))

build_uv_add_base_ignores_is_optional(group, frozen, allow_pre, indexes, is_optional) ==
    <<"uv", "add">>
        \o (IF frozen THEN <<"--frozen">> ELSE <<>>)
        \o (IF group # NoneVal THEN <<"--group", group>> ELSE <<>>)
        \o (IF allow_pre THEN <<"--prerelease", "always">> ELSE <<>>)
        \o IndexArgs(indexes)

build_uv_add_base(group, frozen, allow_pre, indexes, is_optional) ==
    <<"uv", "add">>
        \o (IF frozen THEN <<"--frozen">> ELSE <<>>)
        \o (IF group # NoneVal
            THEN (IF is_optional THEN <<"--optional", group>> ELSE <<"--group", group>>)
            ELSE <<>>)
        \o (IF allow_pre THEN <<"--prerelease", "always">> ELSE <<>>)
        \o IndexArgs(indexes)

(***************************************************************************)
(* main(): the plan                                                        *)
(***************************************************************************)
\* --only-groups, split at its commas; the empty option is <<"">>
OnlyGroupsGiven(tokens) == tokens # <<"">>

FilterGroups(grps, tokens) ==
    LET wanted == {t \in Range(tokens) : t # ""}
    IN SelectSeq(grps, LAMBDA e :
            \/ ("main" \in wanted /\ e.key = NoneVal)
            \/ (e.key # NoneVal /\ e.key \in wanted))

PinnedPackages(grps) ==
    UNION { {grps[i].val[j].name :
                j \in {k \in 1..Len(grps[i].val) : grps[i].val[k].pinned # NoneVal}} :
            i \in 1..Len(grps) }

InPlan_ignores_equal_pin(d, lmap) ==
    /\ d.pinned # NoneVal
    /\ pep503(d.name) \in DOMAIN lmap

InPlan(d, lmap) ==
    /\ d.pinned # NoneVal
    /\ pep503(d.name) \in DOMAIN lmap
    /\ lmap[pep503(d.name)] # d.pinned

RECURSIVE PlanOfDeps(_, _, _)
PlanOfDeps_latest_first(gname, deps, lmap) ==
    IF deps = <<>> THEN <<>>
    ELSE LET d == Head(deps)
         IN PlanOfDeps(gname, Tail(deps), lmap) \o
            (IF InPlan(d, lmap)
             THEN <<[g |-> gname, d |-> d, latest |-> lmap[pep503(d.name)]]>>
             ELSE <<>>)

PlanOfDeps(gname, deps, lmap) ==
    IF deps = <<>> THEN <<>>
    ELSE LET d == Head(deps)
         IN (IF InPlan(d, lmap)
             THEN <<[g |-> gname, d |-> d, latest |-> lmap[pep503(d.name)]]>>
             ELSE <<>>) \o PlanOfDeps(gname, Tail(deps), lmap)

RECURSIVE BuildPlan(_, _)
BuildPlan(grps, lmap) ==
    IF grps = <<>> THEN <<>>
    ELSE PlanOfDeps(Head(grps).key, Head(grps).val, lmap) \o BuildPlan(Tail(grps), lmap)

\* one row of the dry-run table
ReportRow(e) ==
    [group |-> IF e.g = NoneVal THEN "main" ELSE e.g,
     name |-> e.d.name, extras |-> e.d.extras, marker |-> e.d.marker,
     from |-> e.d.pinned, to |-> e.latest]

\* the exact-pin requirement main() passes to uv add for one plan entry
AddSpec(e) ==
    [name |-> e.d.name, extras |-> e.d.extras, ver |-> e.latest, marker |-> e.d.marker]

ToUpdate(pl, gname) == SelectSeq(pl, LAMBDA e : e.g = gname)

(***************************************************************************)
(* State of one run of main().                                             *)
(***************************************************************************)
VARIABLES
    data,             \* pyproject.toml as tomllib loads it (exists: the file is there)
    args,             \* the parsed command line
    env_CI,           \* os.getenv("CI", "")
    reply,            \* what the operator would type at a prompt
    pc,               \* where main() is
    groups,           \* main(): groups, after --only-groups
    is_optional_map,  \* main(): is_optional_map
    pinned_packages,  \* main(): pinned_packages
    latest_map,       \* main(): latest_map
    plan,             \* main(): plan
    gi,               \* position of the per-group loop in groups
    rc,               \* main(): rc
    calls,            \* every uv process run so far, in order
    report,           \* rows of the dry-run table printed so far
    messages,         \* other lines printed to standard output
    stderr_out,       \* what was written to standard error
    exit_status,      \* value main() returned or SystemExit carried
    died,             \* the run ended in die() (SystemExit)
    given,            \* arguments of a function that is called on its own
    returned,         \* the value that function returned
    disk,             \* pyproject.toml of each workspace member
    am,               \* align_workspace_members: members entered so far
    queue             \* align_workspace_members: add commands left for the member

vars == <<data, args, env_CI, reply, pc, groups, is_optional_map, pinned_packages,
          latest_map, plan, gi, rc, calls, report, messages, stderr_out,
          exit_status, died, given, returned, disk, am, queue>>

inputs == <<data, args, env_CI, reply>>

\* state of the functions main() does not call
apart == <<given, returned, disk, am, queue>>

\* main() leaves that state as it is
NotCalled ==
    /\ given = NoneVal
    /\ returned = NoneVal
    /\ disk = <<>>
    /\ am = 0
    /\ queue = <<>>

\* command lines on which the conflict prompt could matter: no group filter
PlainArgs ==
    [dry_run : BOOLEAN, sync : BOOLEAN, yes : BOOLEAN,
     only_groups : {<<"">>}, pre : {FALSE}, index : {<<>>}]

\* command lines with --only-groups, --pre and --index
FilterArgs ==
    [dry_run : BOOLEAN, sync : BOOLEAN, yes : {FALSE},
     only_groups : {<<"main">>}, pre : {FALSE}, index : {<<>>}]
        \cup
    [dry_run : BOOLEAN, sync : BOOLEAN, yes : {FALSE},
     only_groups : {<<"dev", "">>}, pre : {TRUE},
     index : {<<"https://example.org/simple">>}]

CliArgs == PlainArgs \cup FilterArgs

CIValues == {Str(""), Str("TRUE")}

Replies == {Str(" Yes "), Str("n")}

Init ==
    /\ data \in Manifests
    /\ \/ args \in PlainArgs /\ env_CI \in CIValues /\ reply \in Replies
       \/ args \in FilterArgs /\ env_CI = Str("") /\ reply = Str("n")
    /\ pc = "start"
    /\ groups = <<>>
    /\ is_optional_map = <<>>
    /\ pinned_packages = {}
    /\ latest_map = EmptyMap
    /\ plan = <<>>
    /\ gi = 1
    /\ rc = 0
    /\ calls = <<>>
    /\ report = <<>>
    /\ messages = <<>>
    /\ stderr_out = <<>>
    /\ exit_status = NoExit
    /\ died = FALSE
    /\ NotCalled

Call(cmd, argv, reqs, res) ==
    [cmd |-> cmd, argv |-> argv, reqs |-> reqs,
     returncode |-> res.returncode, stderr |-> res.stderr]

\* sys.stderr.write(res.stderr) under "if res.stderr:"
WriteDiag(out, res) ==
    IF res.stderr.text THEN Append(out, [die |-> "", diag |-> res.stderr]) ELSE out

\* die(msg, code)
Die(msg, code) ==
    /\ stderr_out' = Append(stderr_out, [die |-> msg, diag |-> DiagEmpty])
    /\ exit_status' = code
    /\ died' = TRUE
    /\ pc' = "done"

\* print(msg); return code
Return(msg, code) ==
    /\ messages' = Append(messages, msg)
    /\ exit_status' = code
    /\ died' = FALSE
    /\ pc' = "done"

(***************************************************************************)
(* main(), up to the index query: ensure_uv, read_pyproject,               *)
(* gather_direct, --only-groups, the pinned package names.                 *)
(***************************************************************************)
Start ==
    /\ pc = "start"
    /\ \E code \in 0..MaxExit :
        LET res == UvRun(TRUE, [returncode |-> code, stderr |-> DiagEmpty])
            g == gather_direct(data)
            kept == IF OnlyGroupsGiven(args.only_groups)
                    THEN FilterGroups(g.out, args.only_groups)
                    ELSE g.out
            pinned == PinnedPackages(kept)
        IN /\ calls' = Append(calls, Call("version", <<"uv", "--version">>, <<>>, res))
           /\ IF res.raised
              THEN /\ Die("uv not found on PATH.", 1)
                   /\ UNCHANGED <<groups, is_optional_map, pinned_packages, messages>>
              ELSE IF ~data.exists
              THEN /\ Die("Couldn't find pyproject.toml", 1)
                   /\ UNCHANGED <<groups, is_optional_map, pinned_packages, messages>>
              ELSE IF g.out = <<>>
              THEN /\ Return("No direct dependencies found.", 0)
                   /\ is_optional_map' = g.is_optional
                   /\ UNCHANGED <<groups, pinned_packages, stderr_out>>
              ELSE IF kept = <<>>
              THEN /\ Return("No matching groups after --only-groups.", 0)
                   /\ is_optional_map' = g.is_optional
                   /\ UNCHANGED <<groups, pinned_packages, stderr_out>>
              ELSE IF pinned = {}
              THEN /\ Return("No pinned dependencies (==version) found. Nothing to update.", 0)
                   /\ groups' = kept
                   /\ is_optional_map' = g.is_optional
                   /\ UNCHANGED <<pinned_packages, stderr_out>>
              ELSE /\ groups' = kept
                   /\ is_optional_map' = g.is_optional
                   /\ pinned_packages' = pinned
                   /\ messages' = Append(messages, "Querying PyPI for latest versions")
                   /\ pc' = "query"
                   /\ UNCHANGED <<stderr_out, exit_status, died>>
    /\ UNCHANGED <<inputs, apart, latest_map, plan, gi, rc, report>>

(***************************************************************************)
(* main(): query_pypi_batch, the plan, the dry-run report.                 *)
(***************************************************************************)
NoAnswers_some_missing(lmap) == \E n \in pinned_packages : pep503(n) \notin DOMAIN lmap

\* "if not latest_map", line 544
NoAnswers(lmap) == DOMAIN lmap = {}

QueryAndPlan_dry_run_continues ==
    /\ pc = "query"
    /\ \E resp \in [pinned_packages -> Versions \cup {NoneVal}] :
       \E order \in Perms(pinned_packages) :
        LET lmap == query_pypi_batch(EmptyMap, order, resp)
            pl == BuildPlan(groups, lmap)
        IN /\ latest_map' = lmap
           /\ IF NoAnswers(lmap)
              THEN /\ Return("Failed to query PyPI for any packages.", 1)
                   /\ UNCHANGED <<plan, report>>
              ELSE IF pl = <<>>
              THEN /\ Return("Nothing to do.", 0)
                   /\ plan' = pl
                   /\ UNCHANGED report
              ELSE /\ plan' = pl
                   /\ report' = IF args.dry_run
                                THEN [i \in 1..Len(pl) |-> ReportRow(pl[i])]
                                ELSE report
                   /\ pc' = "adds"
                   /\ UNCHANGED <<messages, exit_status, died>>
    /\ gi' = 1
    /\ rc' = 0
    /\ UNCHANGED <<inputs, apart, groups, is_optional_map, pinned_packages, calls, stderr_out>>

QueryAndPlan ==
    /\ pc = "query"
    /\ \E resp \in [pinned_packages -> Versions \cup {NoneVal}] :
       \E order \in Perms(pinned_packages) :
        LET lmap == query_pypi_batch(EmptyMap, order, resp)
            pl == BuildPlan(groups, lmap)
        IN /\ latest_map' = lmap
           /\ IF NoAnswers(lmap)
              THEN /\ Return("Failed to query PyPI for any packages.", 1)
                   /\ UNCHANGED <<plan, report>>
              ELSE IF args.dry_run
              THEN /\ plan' = pl
                   /\ IF pl = <<>>
                      THEN /\ Return("Dry run: all pinned dependencies are already at their latest versions.", 0)
                           /\ UNCHANGED report
                      ELSE /\ report' = [i \in 1..Len(pl) |-> ReportRow(pl[i])]
                           /\ Return("(No files changed.)", 0)
              ELSE IF pl = <<>>
              THEN /\ Return("All pinned dependencies are already at their latest versions. Nothing to do.", 0)
                   /\ plan' = pl
                   /\ UNCHANGED report
              ELSE /\ plan' = pl
                   /\ pc' = "adds"
                   /\ UNCHANGED <<report, messages, exit_status, died>>
    /\ gi' = 1
    /\ rc' = 0
    /\ UNCHANGED <<inputs, apart, groups, is_optional_map, pinned_packages, calls, stderr_out>>

(***************************************************************************)
(* main(): the per-group loop.  One step runs the loop up to and including *)
(* the next uv add; when that was the last group with updates, the step    *)
(* goes on to the check of rc that follows the loop.                       *)
(***************************************************************************)
\* index of the first group at or after i that has plan entries, 0 if none
NextGroup(i) ==
    LET S == {k \in i..Len(groups) : ToUpdate(plan, groups[k].key) # <<>>}
    IN IF S = {} THEN 0 ELSE CHOOSE k \in S : \A j \in S : k <= j

AddReqs(to_update) == [k \in 1..Len(to_update) |-> AddSpec(to_update[k])]

RcAfterAdd_last_result(res) ==
    IF res.returncode # 0 THEN 1 ELSE 0

\* rc after one uv add: lines 593-604
RcAfterAdd(res) ==
    IF res.raised
    THEN (IF rc # 0 THEN rc ELSE res.returncode)
    ELSE IF res.returncode # 0 THEN 1 ELSE rc

LoopStopsAtFailure(i, res) == res.returncode = 0 /\ NextGroup(i + 1) # 0

\* the loop has another group to run after group i
LoopContinues_forever(i, res) == TRUE

LoopContinues(i, res) == NextGroup(i + 1) # 0

AddArgs_not_frozen(gname) ==
    build_uv_add_base(gname, FALSE, args.pre, args.index,
        IF gname # NoneVal THEN DictGetBool(is_optional_map, gname, FALSE) ELSE FALSE)

\* base command of the add call for group gname: lines 584-585
AddArgs(gname) ==
    build_uv_add_base(gname, TRUE, args.pre, args.index,
        IF gname # NoneVal THEN DictGetBool(is_optional_map, gname, FALSE) ELSE FALSE)

RunAdd ==
    /\ pc = "adds"
    /\ NextGroup(gi) # 0
    /\ \E proc \in ProcResults :
        LET i == NextGroup(gi)
            gname == groups[i].key
            res == UvRun(FALSE, proc)
            newrc == RcAfterAdd(res)
        IN /\ calls' = Append(calls,
                          Call("add", AddArgs(gname), AddReqs(ToUpdate(plan, gname)), res))
           /\ rc' = newrc
           /\ gi' = i + 1
           /\ IF LoopContinues(i, res)
              THEN /\ pc' = "adds"
                   /\ stderr_out' = WriteDiag(stderr_out, res)
                   /\ messages' = IF res.returncode # 0 /\ ~res.raised
                                  THEN Append(messages, "Failed to update dependencies")
                                  ELSE messages
                   /\ UNCHANGED <<exit_status, died>>
              ELSE IF newrc # 0
              THEN /\ stderr_out' = Append(WriteDiag(stderr_out, res),
                                       [die |-> "One or more uv add commands failed. See output above.",
                                        diag |-> DiagEmpty])
                   /\ messages' = IF res.returncode # 0 /\ ~res.raised
                                  THEN Append(messages, "Failed to update dependencies")
                                  ELSE messages
                   /\ exit_status' = newrc
                   /\ died' = TRUE
                   /\ pc' = "done"
              ELSE /\ pc' = "lock"
                   /\ UNCHANGED <<stderr_out, messages, exit_status, died>>
    /\ UNCHANGED <<inputs, apart, groups, is_optional_map, pinned_packages, latest_map, plan, report>>

(***************************************************************************)
(* main(): uv lock after the loop, lines 609-620, and what follows a       *)
(* successful lock when --sync is not given, lines 623 and 636-638.        *)
(***************************************************************************)
LockStatus_ignores_failure(res) == 0

\* status main() returns when uv lock or uv sync did not succeed
LockStatus(res) == 1

RunLock ==
    /\ pc = "lock"
    /\ \E proc \in ProcResults :
        LET res == UvRun(FALSE, proc)
        IN /\ calls' = Append(calls, Call("lock", <<"uv", "lock">>, <<>>, res))
           /\ IF res.raised \/ res.returncode # 0
              THEN /\ messages' = Append(messages, "uv lock failed.")
                   /\ stderr_out' = IF res.raised THEN stderr_out ELSE WriteDiag(stderr_out, res)
                   /\ exit_status' = LockStatus(res)
                   /\ died' = FALSE
                   /\ pc' = "done"
              ELSE IF args.sync
              THEN /\ pc' = "sync"
                   /\ UNCHANGED <<messages, stderr_out, exit_status, died>>
              ELSE /\ Return("Done. pyproject.toml updated (run uv sync to update environment).", 0)
                   /\ UNCHANGED stderr_out
    /\ UNCHANGED <<inputs, apart, groups, is_optional_map, pinned_packages, latest_map, plan,
                   gi, rc, report>>

(***************************************************************************)
(* main(): uv sync, lines 623-638.                                         *)
(***************************************************************************)
RunSync ==
    /\ pc = "sync"
    /\ \E proc \in ProcResults :
        LET res == UvRun(FALSE, proc)
        IN /\ calls' = Append(calls, Call("sync", <<"uv", "sync">>, <<>>, res))
           /\ IF res.raised \/ res.returncode # 0
              THEN /\ messages' = Append(messages, "uv sync failed.")
                   /\ stderr_out' = IF res.raised THEN stderr_out ELSE WriteDiag(stderr_out, res)
                   /\ exit_status' = LockStatus(res)
                   /\ died' = FALSE
                   /\ pc' = "done"
              ELSE /\ Return("Done. pyproject.toml updated and environment synced.", 0)
                   /\ UNCHANGED stderr_out
    /\ UNCHANGED <<inputs, apart, groups, is_optional_map, pinned_packages, latest_map, plan,
                   gi, rc, report>>

Next == Start \/ QueryAndPlan \/ RunAdd \/ RunLock \/ RunSync

Spec == Init /\ [][Next]_vars

(***************************************************************************)
(* Vocabulary of the properties.                                           *)
(***************************************************************************)
Idx(cmd) == {i \in 1..Len(calls) : calls[i].cmd = cmd}

HasFlag(c, flag) == flag \in Range(c.argv)

\* the group an add call names: the word after --optional or --group
CallGroup(c) ==
    IF \E i \in 1..Len(c.argv) - 1 : c.argv[i] \in {"--optional", "--group"}
    THEN c.argv[(CHOOSE i \in 1..Len(c.argv) - 1 : c.argv[i] \in {"--optional", "--group"}) + 1]
    ELSE NoneVal

\* a per-group add call of plan execution, as opposed to a member-aligning one
GroupAddIdx == {i \in Idx("add") : ~HasFlag(calls[i], "--project")}

MemberAddIdx == {i \in Idx("add") : HasFlag(calls[i], "--project")}

Failed(i) == calls[i].returncode # 0

ConflictFailures == {i \in GroupAddIdx : Failed(i) /\ IsConflictDiagnostic(calls[i].stderr)}

OtherFailures == {i \in GroupAddIdx : Failed(i) /\ ~IsConflictDiagnostic(calls[i].stderr)}

\* keys of the groups that have at least one plan entry, in group order
PendingGroups ==
    LET withEntries == SelectSeq(groups, LAMBDA e : \E k \in 1..Len(plan) : plan[k].g = e.key)
    IN [k \in 1..Len(withEntries) |-> withEntries[k].key]

AddCalls == SelectSeq(calls, LAMBDA c : c.cmd = "add")

DieLines == {i \in 1..Len(stderr_out) : stderr_out[i].die # ""}

Finished == pc = "done"

\* the operator's answer to a conflict: auto-accept, or the typed reply
AutoAccepted == args.yes \/ is_ci_environment(env_CI)

ReplyAccepts(i) ==
    prompt_user_for_conflict_resolution(parse_workspace_conflict(calls[i].stderr).list, reply)

Prompted == "Align all pyproject.toml files to target versions (latest) and retry lock? [y/N]" \in Range(messages)

AligningReached == "Aligning workspace members..." \in Range(messages) \/ MemberAddIdx # {}

ManualHelpShown == "To manually resolve these conflicts" \in Range(messages)

(***************************************************************************)
(* C1.  When a per-group add call fails and the Conflict Parser extracts   *)
(* one or more Workspace Conflicts from its diagnostic, the run is handed  *)
(* to the Conflict Resolver: no add call of a remaining group follows, and *)
(* the run does not end in the aggregate "uv add commands failed" report.  *)
(***************************************************************************)
C1_ConflictHandsOffToResolver ==
    \A i \in ConflictFailures :
        /\ \A j \in GroupAddIdx : j <= i
        /\ Finished => (DieLines = {} /\ (AligningReached \/ ManualHelpShown))

(***************************************************************************)
(* C2.  When a workspace conflict is detected and the operator declines    *)
(* the prompt, no member-aligning add, no lock and no sync call follows,   *)
(* the manual remediation commands are printed and the run ends with       *)
(* exit status 0.                                                          *)
(***************************************************************************)
C2_DeclineEndsWithSuccess ==
    \A i \in ConflictFailures :
        (Finished /\ ~AutoAccepted /\ ~ReplyAccepts(i)) =>
            /\ \A j \in MemberAddIdx \cup Idx("lock") \cup Idx("sync") : j < i
            /\ ManualHelpShown
            /\ exit_status = 0

(***************************************************************************)
(* C3.  After a conflict is detected the resolver reaches aligning without *)
(* a prompt exactly when the auto-accept flag is set or CI is one of       *)
(* true/1/yes in any letter case; otherwise the operator is prompted and   *)
(* aligning is reached only for a reply that is y or yes once trimmed and  *)
(* lower-cased.                                                            *)
(***************************************************************************)
C3_AcceptanceDecidesAligning ==
    \A i \in ConflictFailures :
        Finished =>
            /\ Prompted <=> ~AutoAccepted
            /\ AligningReached <=> (AutoAccepted \/ ReplyAccepts(i))

(***************************************************************************)
(* C4.  If a per-group add call fails with a diagnostic that is not a      *)
(* recognized conflict, the add call of every later group with pending     *)
(* updates is still issued, and the run then ends with a single non-zero   *)
(* failure and without a lock or a sync call.                              *)
(***************************************************************************)
C4_NonConflictFailureContinues ==
    (Finished /\ OtherFailures # {}) =>
        /\ Len(AddCalls) = Len(PendingGroups)
        /\ \A k \in 1..Len(AddCalls) : CallGroup(AddCalls[k]) = PendingGroups[k]
        /\ Idx("lock") = {} /\ Idx("sync") = {}
        /\ exit_status \notin {0, NoExit}
        /\ Cardinality(DieLines) = 1

C4_Witness ==
    /\ Finished
    /\ \E i \in OtherFailures : \E j \in GroupAddIdx : i < j

(***************************************************************************)
(* C5.  When per-group add calls fail for a non-conflict reason, the exit  *)
(* status of the run is the exit code of the first add call that failed.   *)
(***************************************************************************)
C5_FirstExitCodeWins ==
    (Finished /\ OtherFailures # {} /\ ConflictFailures = {}) =>
        LET first == CHOOSE i \in OtherFailures : \A j \in OtherFailures : i <= j
        IN exit_status = calls[first].returncode

(***************************************************************************)
(* C6.  The lock call is issued at most once, only after the add call of   *)
(* every group of the plan has returned success, and exactly once when     *)
(* they all have; no add call follows it.  The sync call is issued at most *)
(* once, only after a successful lock call, and exactly when sync was      *)
(* requested.                                                              *)
(***************************************************************************)
C6_LockOnceAfterAllAdds ==
    /\ Cardinality(Idx("lock")) <= 1
    /\ Cardinality(Idx("sync")) <= 1
    /\ \A l \in Idx("lock") :
          /\ Cardinality({i \in GroupAddIdx : i < l}) = Len(PendingGroups)
          /\ \A i \in Idx("add") : i < l /\ ~Failed(i)
    /\ \A y \in Idx("sync") :
          /\ args.sync
          /\ \E l \in Idx("lock") : l < y /\ ~Failed(l)
    /\ (Finished /\ Len(AddCalls) = Len(PendingGroups) /\ AddCalls # <<>>
            /\ \A i \in Idx("add") : ~Failed(i))
          => Cardinality(Idx("lock")) = 1
    /\ (Finished /\ args.sync /\ \E l \in Idx("lock") : ~Failed(l))
          => Cardinality(Idx("sync")) = 1

C6_Witness ==
    /\ Finished
    /\ Cardinality(Idx("add")) >= 2
    /\ \E l \in Idx("lock") : \E y \in Idx("sync") : l < y /\ ~Failed(y)

PlanEntriesOf(gname) == SelectSeq(plan, LAMBDA e : e.g = gname)

CarriesPinsOf(c, gname) ==
    LET es == PlanEntriesOf(gname)
    IN /\ Len(c.reqs) = Len(es)
       /\ \A k \in 1..Len(es) :
             /\ c.reqs[k].name = es[k].d.name
             /\ c.reqs[k].extras = es[k].d.extras
             /\ c.reqs[k].ver = es[k].latest

PlanExecuted == pc \in {"lock", "sync"} \/ (Finished /\ AddCalls # <<>>)

DryRunReportMatchesPlan ==
    /\ Len(report) = Len(plan)
    /\ \A k \in 1..Len(plan) :
          /\ report[k].group = (IF plan[k].g = NoneVal THEN "main" ELSE plan[k].g)
          /\ report[k].name = plan[k].d.name
          /\ report[k].from = plan[k].d.pinned
          /\ report[k].to = plan[k].latest

\* the run got as far as reading a manifest
ManifestRead == data.exists /\ \A i \in Idx("version") : ~Failed(i)

PlanBuilt == pc \in {"adds", "lock", "sync"} \/ (Finished /\ DOMAIN latest_map # {})

C10_PlanIffPinnedAndOutdated ==
    PlanBuilt =>
        /\ \A i \in 1..Len(groups) : \A j \in 1..Len(groups[i].val) :
              LET d == groups[i].val[j]
              IN (\E k \in 1..Len(plan) : plan[k].g = groups[i].key /\ plan[k].d = d)
                    <=> /\ d.pinned # NoneVal
                        /\ pep503(d.name) \in DOMAIN latest_map
                        /\ latest_map[pep503(d.name)] # d.pinned
        /\ \A k \in 1..Len(plan) :
              /\ \E i \in 1..Len(groups) :
                    groups[i].key = plan[k].g /\ plan[k].d \in Range(groups[i].val)
              /\ plan[k].latest = latest_map[pep503(plan[k].d.name)]

C10_Witness ==
    /\ PlanBuilt
    /\ plan # <<>>
    /\ \E i \in 1..Len(groups) : \E j \in 1..Len(groups[i].val) :
          LET d == groups[i].val[j]
          IN /\ d.pinned # NoneVal
             /\ pep503(d.name) \in DOMAIN latest_map
             /\ latest_map[pep503(d.name)] = d.pinned

(***************************************************************************)
(* align_workspace_members, called on its own with a ConflictResolution.   *)
(* The workspace has the members of MemberOrder; each has a manifest on    *)
(* disk (or none).  A conflict names two of the members and a package.     *)
(***************************************************************************)
\* number of conflicts in a resolution
MaxConflicts == 2

\* the member directories, in the order sorted() gives them
MemberOrder == <<"common", "qluster-sdk", "web">>

Members == Range(MemberOrder)

Packages == {"flake8", "pytest"}

\* sorted(S) for a set of members
Sorted_descending(S) ==
    LET up == SelectSeq(MemberOrder, LAMBDA m : m \in S)
    IN [i \in 1..Len(up) |-> up[Len(up) + 1 - i]]

Sorted(S) == SelectSeq(MemberOrder, LAMBDA m : m \in S)

\* the requirement line name==ver of a member manifest
MemberReq(name, ver) ==
    [name |-> Chars(name), extras |-> "", op |-> "==", ver |-> ver, marker |-> NoneVal]

\* manifests a member can have: none; both packages in the optional list
\* dev; one package in the main list and one in the dependency group dev
MemberManifests ==
    { MissingData,
      MkData(EmptyData,
             << [sec |-> [table |-> "optional", key |-> "dev"], req |-> MemberReq("flake8", "7.2.0")],
                [sec |-> [table |-> "optional", key |-> "dev"], req |-> MemberReq("pytest", "8.0.0")] >>),
      MkData(EmptyData,
             << [sec |-> [table |-> "dependencies", key |-> NoneVal], req |-> MemberReq("Flake8", "7.3.0")],
                [sec |-> [table |-> "groups", key |-> "dev"], req |-> MemberReq("pytest", "8.1.0")] >>) }

\* the manifests on disk; the last member has none
Disks == {f \in [Members -> MemberManifests] : f[MemberOrder[Len(MemberOrder)]] = MissingData}

AlignConflicts ==
    { WorkspaceConflict(p, "dev", MemberOrder[ij[1]], "7.2.0", MemberOrder[ij[2]], "7.3.0") :
        p \in Packages,
        ij \in {x \in (1..Len(MemberOrder)) \X (1..Len(MemberOrder)) : x[1] < x[2]} }

\* the target the resolution carries for a package
TargetOf(p) == IF p = "flake8" THEN "7.4.0" ELSE "8.2.0"

\* ConflictResolution: one target per package of the conflicts, the
\* affected members are the members the conflicts name
ConflictResolution(conflicts) ==
    [extra_name |-> IF conflicts = <<>> THEN "dev" ELSE conflicts[1].extra_name,
     conflicts |-> conflicts,
     target_versions |-> [p \in {conflicts[i].package_name : i \in 1..Len(conflicts)} |-> TargetOf(p)],
     affected_members |-> UNION {DOMAIN conflicts[i].conflicts : i \in 1..Len(conflicts)}]

\* some line of the list parses to the normalized name
DeclaresPackage(deps, norm_name) ==
    \E i \in 1..Len(deps) : pep503(parse_req(deps[i]).name) = norm_name

\* an entry of a dependency-groups list that is a table, not a string:
\* {include-group = "g"} (PEP 735)
IncludeGroup(g) == [include |-> g]

IsText(item) == "include" \notin DOMAIN item

\* the entries at which a scan of one list for the name ends: a matching
\* line, or a table, on which parse_req raises (line 52: req.strip())
StopsAt(deps, norm_name) ==
    {i \in 1..Len(deps) :
        \/ ~IsText(deps[i])
        \/ pep503(parse_req(deps[i]).name) = norm_name}

\* least element of a set of indexes, 0 for the empty set
FirstOf(S) == IF S = {} THEN 0 ELSE CHOOSE i \in S : \A j \in S : i <= j

\* how a scan ends that stops at the entries S of the list
ScanEnd(deps, S) ==
    IF S = {} THEN "miss"
    ELSE IF IsText(deps[FirstOf(S)]) THEN "hit"
    ELSE "raise"

\* the scan of one list: "hit" at a matching line, "raise" at a table,
\* "miss" when the list ends first
ScanList(deps, norm_name) == ScanEnd(deps, StopsAt(deps, norm_name))

\* index of the first list of the table at which the scan ends, 0 if none
ScanTable(table, norm_name) ==
    FirstOf({i \in 1..Len(table) : ScanList(table[i].val, norm_name) # "miss"})

\* a manifest tomllib cannot load
BrokenData ==
    [exists |-> TRUE, broken |-> TRUE, dependencies |-> <<>>, optional |-> <<>>, groups |-> <<>>]

Unreadable(d) == "broken" \in DOMAIN d

LocationNone == [raised |-> FALSE, none |-> TRUE, text |-> <<>>]

LocationRaised == [raised |-> TRUE, none |-> FALSE, text |-> <<>>]

\* the end of the search in the list e of a table, prefix being <<>> for an
\* optional list and <<"group:">> for a dependency group
LocationIn(e, prefix, norm_name) ==
    IF ScanList(e.val, norm_name) = "hit"
    THEN [raised |-> FALSE, none |-> FALSE, text |-> prefix \o <<e.key>>]
    ELSE LocationRaised

\* the search, given the end m of the scan of the main list and the indexes
\* o and g of the first optional list and dependency group that end a scan
Located(d, norm_name, m, o, g) ==
    IF m = "hit" THEN LocationNone
    ELSE IF m = "raise" THEN LocationRaised
    ELSE IF o # 0 THEN LocationIn(d.optional[o], <<>>, norm_name)
    ELSE IF g # 0 THEN LocationIn(d.groups[g], <<"group:">>, norm_name)
    ELSE LocationNone

LocationOf(d, norm_name) ==
    IF ~d.exists \/ Unreadable(d) THEN LocationNone
    ELSE Located(d, norm_name, ScanList(d.dependencies, norm_name),
                 ScanTable(d.optional, norm_name), ScanTable(d.groups, norm_name))

\* none TRUE is None (main list); otherwise text is the returned string:
\* <<g>> for an optional list, <<"group:", g>> for a dependency group;
\* raised TRUE is the AttributeError of parse_req on a table entry
find_package_location_in_member(d, package_name) ==
    LocationOf(d, pep503(Chars(package_name)))

\* main_specs, optional_specs and group_specs of one member: lines 312-328
RECURSIVE MemberSpecs(_, _, _, _, _)
MemberSpecs(acc, member, cs, target_versions, d) ==
    IF cs = <<>> THEN acc
    ELSE LET conflict == Head(cs)
             spec == [name |-> conflict.package_name,
                      ver |-> target_versions[conflict.package_name]]
             location == find_package_location_in_member(d, conflict.package_name)
             nxt == IF member \notin DOMAIN conflict.conflicts THEN acc
                    ELSE IF location.none
                    THEN [acc EXCEPT !.main = Append(@, spec)]
                    ELSE IF Head(location.text) = "group:"
                    THEN [acc EXCEPT !.group = TableAdd(@, location.text[2], spec)]
                    ELSE [acc EXCEPT !.optional = TableAdd(@, location.text[1], spec)]
         IN MemberSpecs(nxt, member, Tail(cs), target_versions, d)

MemberCommands_without_groups(member, resolution, d) ==
    LET s == MemberSpecs([main |-> <<>>, optional |-> <<>>, group |-> <<>>], member,
                         resolution.conflicts, resolution.target_versions, d)
        base == <<"uv", "add", "--project", member, "--frozen">>
    IN (IF s.main # <<>>
        THEN <<[argv |-> base, reqs |-> s.main, what |-> "main deps"]>>
        ELSE <<>>)
       \o [i \in 1..Len(s.optional) |->
             [argv |-> base \o <<"--optional", s.optional[i].key>>,
              reqs |-> s.optional[i].val, what |-> "optional deps"]]

\* the uv add commands of one member, in the order the code runs them
MemberCommands(member, resolution, d) ==
    LET s == MemberSpecs([main |-> <<>>, optional |-> <<>>, group |-> <<>>], member,
                         resolution.conflicts, resolution.target_versions, d)
        base == <<"uv", "add", "--project", member, "--frozen">>
    IN (IF s.main # <<>>
        THEN <<[argv |-> base, reqs |-> s.main, what |-> "main deps"]>>
        ELSE <<>>)
       \o [i \in 1..Len(s.optional) |->
             [argv |-> base \o <<"--optional", s.optional[i].key>>,
              reqs |-> s.optional[i].val, what |-> "optional deps"]]
       \o [i \in 1..Len(s.group) |->
             [argv |-> base \o <<"--group", s.group[i].key>>,
              reqs |-> s.group[i].val, what |-> "group deps"]]

\* what a successful uv add name==ver leaves in one requirement list
Repin(deps, spec) ==
    LET r == MemberReq(spec.name, spec.ver)
    IN IF DeclaresPackage(deps, pep503(r.name))
       THEN [i \in 1..Len(deps) |->
               IF pep503(parse_req(deps[i]).name) = pep503(r.name) THEN r ELSE deps[i]]
       ELSE Append(deps, r)

RECURSIVE RepinAll(_, _)
RepinAll(deps, specs) ==
    IF specs = <<>> THEN deps ELSE RepinAll(Repin(deps, Head(specs)), Tail(specs))

TableRepin(table, k, specs) ==
    IF DictHas(table, k)
    THEN [i \in 1..Len(table) |->
            IF table[i].key = k
            THEN [key |-> k, val |-> RepinAll(table[i].val, specs)]
            ELSE table[i]]
    ELSE Append(table, [key |-> k, val |-> RepinAll(<<>>, specs)])

\* the member manifest after a successful add command
Staged(d, cmd) ==
    LET e == [d EXCEPT !.exists = TRUE]
    IN CASE cmd.what = "main deps" ->
                [e EXCEPT !.dependencies = RepinAll(@, cmd.reqs)]
         [] cmd.what = "optional deps" ->
                [e EXCEPT !.optional = TableRepin(@, cmd.argv[Len(cmd.argv)], cmd.reqs)]
         [] cmd.what = "group deps" ->
                [e EXCEPT !.groups = TableRepin(@, cmd.argv[Len(cmd.argv)], cmd.reqs)]

\* results of the uv processes align_workspace_members runs
AlignResults == {r \in ProcResults : r.stderr \in {DiagEmpty, DiagOther}}

\* main() is not running
mainvars == <<data, args, env_CI, reply, groups, is_optional_map, pinned_packages,
              latest_map, plan, gi, rc, report, exit_status, died>>

MainNotRun ==
    /\ data = MissingData
    /\ args = [dry_run |-> FALSE, sync |-> FALSE, yes |-> FALSE,
               only_groups |-> <<"">>, pre |-> FALSE, index |-> <<>>]
    /\ env_CI = Str("")
    /\ reply = Str("n")
    /\ groups = <<>>
    /\ is_optional_map = <<>>
    /\ pinned_packages = {}
    /\ latest_map = EmptyMap
    /\ plan = <<>>
    /\ gi = 1
    /\ rc = 0
    /\ report = <<>>
    /\ exit_status = NoExit
    /\ died = FALSE

AlignInit ==
    /\ MainNotRun
    /\ given \in [resolution : {ConflictResolution(cs) : cs \in BoundedSeq(AlignConflicts, MaxConflicts)},
                  sync : BOOLEAN]
    /\ disk \in Disks
    /\ returned = NoneVal
    /\ am = 0
    /\ queue = <<>>
    /\ pc = "align"
    /\ calls = <<>>
    /\ messages = <<>>
    /\ stderr_out = <<>>

\* the members of the loop of line 310
AffectedSorted == Sorted(given.resolution.affected_members)

NextMember_none(k) == 0

\* index of the first member after the k-th that has an add command, 0 if none
NextMember(k) ==
    LET rest == {j \in (k + 1)..Len(AffectedSorted) :
                    MemberCommands(AffectedSorted[j], given.resolution,
                                   disk[AffectedSorted[j]]) # <<>>}
    IN IF rest = {} THEN 0 ELSE CHOOSE j \in rest : \A i \in rest : j <= i

AddsLeft == queue # <<>> \/ NextMember(am) # 0

\* line 307
AlignBegin ==
    /\ pc = "align"
    /\ messages' = Append(messages, "Aligning workspace members...")
    /\ pc' = "staging"
    /\ UNCHANGED <<mainvars, given, returned, disk, am, queue, calls, stderr_out>>

StageFailed_never(res) == FALSE

\* lines 336, 351, 366
StageFailed(res) == res.returncode # 0

\* the member the loop is at when the next uv add runs
StagingIndex == IF queue # <<>> THEN am ELSE NextMember(am)

\* one uv add of the k-th member, cmds being the commands it still has to run
StageCommand(k, cmds, res) ==
    /\ calls' = Append(calls, Call("add", Head(cmds).argv, Head(cmds).reqs, res))
    /\ am' = k
    /\ queue' = Tail(cmds)
    /\ IF StageFailed(res)
       THEN /\ messages' = Append(messages, <<"Failed to stage", Head(cmds).what, "for member">>)
            /\ stderr_out' = WriteDiag(stderr_out, res)
            /\ returned' = "False"
            /\ pc' = "done"
            /\ UNCHANGED disk
       ELSE /\ disk' = [disk EXCEPT ![AffectedSorted[k]] = Staged(@, Head(cmds))]
            /\ UNCHANGED <<messages, stderr_out, returned, pc>>

\* the loop of lines 310-373, up to and including its next uv add
AlignAdd ==
    /\ pc = "staging"
    /\ AddsLeft
    /\ \E proc \in AlignResults : \E k \in {StagingIndex} :
        StageCommand(k,
                     IF queue # <<>> THEN queue
                     ELSE MemberCommands(AffectedSorted[k], given.resolution,
                                         disk[AffectedSorted[k]]),
                     UvRun(FALSE, proc))
    /\ UNCHANGED <<mainvars, given>>

AlignLockFailed_never(res) == FALSE

\* line 379
AlignLockFailed(res) == res.returncode # 0

\* lines 375-390 and, without sync, line 404
AlignLock ==
    /\ pc = "staging"
    /\ ~AddsLeft
    /\ \E proc \in AlignResults :
        LET res == UvRun(FALSE, proc)
        IN /\ calls' = Append(calls, Call("lock", <<"uv", "lock">>, <<>>, res))
           /\ IF AlignLockFailed(res)
              THEN /\ messages' = Append(messages, "uv lock failed after alignment. Files have been modified.")
                   /\ stderr_out' = WriteDiag(stderr_out, res)
                   /\ returned' = "False"
                   /\ pc' = "done"
              ELSE IF given.sync
              THEN /\ pc' = "align_sync"
                   /\ UNCHANGED <<messages, stderr_out, returned>>
              ELSE /\ returned' = "True"
                   /\ pc' = "done"
                   /\ UNCHANGED <<messages, stderr_out>>
    /\ UNCHANGED <<mainvars, given, disk, am, queue>>

AlignSyncFailed_never(res) == FALSE

\* line 394
AlignSyncFailed(res) == res.returncode # 0

\* lines 390-404
AlignSync ==
    /\ pc = "align_sync"
    /\ \E proc \in AlignResults :
        LET res == UvRun(FALSE, proc)
        IN /\ calls' = Append(calls, Call("sync", <<"uv", "sync">>, <<>>, res))
           /\ IF AlignSyncFailed(res)
              THEN /\ messages' = Append(messages, "uv sync failed but lock succeeded. Environment may be inconsistent.")
                   /\ stderr_out' = WriteDiag(stderr_out, res)
                   /\ returned' = "False"
              ELSE /\ returned' = "True"
                   /\ UNCHANGED <<messages, stderr_out>>
           /\ pc' = "done"
    /\ UNCHANGED <<mainvars, given, disk, am, queue>>

AlignNext == AlignBegin \/ AlignAdd \/ AlignLock \/ AlignSync

SpecAlign == AlignInit /\ [][AlignNext]_vars

(***************************************************************************)
(* Vocabulary of the properties of align_workspace_members.                *)
(***************************************************************************)
\* the member an aligning add call names after --project
CallMember(c) == c.argv[4]

AllLists(d) ==
    {d.dependencies} \cup {d.optional[i].val : i \in 1..Len(d.optional)}
                     \cup {d.groups[i].val : i \in 1..Len(d.groups)}

\* the manifest pins the package to exactly ver in one of its lists
HasPin(d, pkg, ver) ==
    \E deps \in AllLists(d) : \E i \in 1..Len(deps) :
        /\ pep503(parse_req(deps[i]).name) = pep503(Chars(pkg))
        /\ parse_req(deps[i]).pinned = ver

\* every pin the j-th call wrote is in the member's manifest
StagedStays(j) ==
    \A k \in 1..Len(calls[j].reqs) :
        HasPin(disk[CallMember(calls[j])], calls[j].reqs[k].name, calls[j].reqs[k].ver)

\* the pins the resolution asks for: one per member and conflict naming it
RequiredPins ==
    UNION { {<<m, given.resolution.conflicts[i].package_name,
               given.resolution.target_versions[given.resolution.conflicts[i].package_name]>> :
                m \in DOMAIN given.resolution.conflicts[i].conflicts} :
            i \in 1..Len(given.resolution.conflicts) }

\* the pins carried by the calls before the l-th
IssuedPins(l) ==
    UNION { {<<CallMember(calls[i]), calls[i].reqs[k].name, calls[i].reqs[k].ver>> :
                k \in 1..Len(calls[i].reqs)} :
            i \in {x \in 1..(l - 1) : calls[x].cmd = "add"} }

LockSucceeded == \E l \in Idx("lock") : ~Failed(l)

(***************************************************************************)
(* C11.  While members are aligned, a member add call that returns         *)
(* non-zero is the last call of the resolver: no call of any kind follows, *)
(* the resolver has returned failure, and the pins written by the add      *)
(* calls before it are still in the members' manifests.                    *)
(***************************************************************************)
C11_AddFailureAborts ==
    \A i \in MemberAddIdx :
        Failed(i) =>
            /\ i = Len(calls)
            /\ pc = "done"
            /\ returned = "False"
            /\ \A j \in 1..(i - 1) : calls[j].cmd = "add" /\ ~Failed(j) /\ StagedStays(j)

C11_Witness == \E i \in MemberAddIdx : Failed(i) /\ i > 1

(***************************************************************************)
(* C12.  In a resolution episode the lock call is issued at most once, and *)
(* only after add calls carrying the target pin of every affected member   *)
(* for every conflict naming it have all returned success; an episode that *)
(* ended with all its add calls successful has issued it exactly once.     *)
(***************************************************************************)
C12_LockOnceAfterAllMembers ==
    /\ Cardinality(Idx("lock")) <= 1
    /\ \A l \in Idx("lock") :
        /\ \A i \in 1..(l - 1) : i \in MemberAddIdx /\ ~Failed(i)
        /\ RequiredPins \subseteq IssuedPins(l)
    /\ (pc = "done" /\ \A i \in MemberAddIdx : ~Failed(i)) => Cardinality(Idx("lock")) = 1

C12_Witness == \E l \in Idx("lock") : l > 2

(***************************************************************************)
(* C13.  A lock call that fails after alignment is the last call of the    *)
(* resolver (no sync, no compensating add), the resolver has returned      *)
(* failure, and every manifest staged before keeps its target pins.        *)
(***************************************************************************)
C13_LockFailureNoRollback ==
    \A l \in Idx("lock") :
        Failed(l) =>
            /\ l = Len(calls)
            /\ pc = "done"
            /\ returned = "False"
            /\ \A j \in 1..(l - 1) : StagedStays(j)

C13_Witness == \E l \in Idx("lock") : Failed(l) /\ l > 1

(***************************************************************************)
(* C14.  The resolver issues the sync call if and only if sync was         *)
(* requested and the lock call succeeded, at most once and after the lock  *)
(* call; a failed sync call makes it return failure, a successful one      *)
(* success, and without sync a successful lock call makes it return        *)
(* success.                                                                *)
(***************************************************************************)
C14_SyncIffRequestedAndLocked ==
    /\ Cardinality(Idx("sync")) <= 1
    /\ \A s \in Idx("sync") :
        /\ given.sync
        /\ s = Len(calls)
        /\ \E l \in Idx("lock") : l < s /\ ~Failed(l)
        /\ returned = IF Failed(s) THEN "False" ELSE "True"
    /\ pc = "done" => (Idx("sync") # {} <=> (given.sync /\ LockSucceeded))
    /\ (~given.sync /\ LockSucceeded) => returned = "True"

C14_Witness == \E s \in Idx("sync") : Failed(s) /\ returned = "False"

(***************************************************************************)
(* determine_target_versions, called on its own.  Versions are text here:  *)
(* max() of a list of Python strings compares them by code point.          *)
(***************************************************************************)
\* ord() of the characters version strings are made of
Ord(c) ==
    CASE c = "." -> 46
      [] c = "0" -> 48 [] c = "1" -> 49 [] c = "2" -> 50 [] c = "3" -> 51
      [] c = "4" -> 52 [] c = "5" -> 53 [] c = "6" -> 54 [] c = "7" -> 55
      [] c = "8" -> 56 [] c = "9" -> 57

RECURSIVE StrLess(_, _)
StrLess_by_length(a, b) == Len(a) < Len(b)

\* a < b for Python strings
StrLess(a, b) ==
    IF b = <<>> THEN FALSE
    ELSE IF a = <<>> THEN TRUE
    ELSE IF Head(a) = Head(b) THEN StrLess(Tail(a), Tail(b))
    ELSE Ord(Head(a)) < Ord(Head(b))

\* max() of a non-empty collection of strings
PyMax(S) == CHOOSE v \in S : \A w \in S : ~StrLess(v, w)

VerChars(v) ==
    CASE v = "7.2.0"  -> <<"7", ".", "2", ".", "0">>
      [] v = "7.10.0" -> <<"7", ".", "1", "0", ".", "0">>
      [] v = "7.9"    -> <<"7", ".", "9">>
      [] v = "8.0"    -> <<"8", ".", "0">>

\* the versions members pin
PinTexts == {VerChars("7.2.0"), VerChars("7.10.0"), VerChars("7.9")}

\* what query_pypi_latest returns: a version, or nothing (None, shown as <<>>)
Answers == {<<>>, VerChars("8.0")}

Unknown == <<"u", "n", "k", "n", "o", "w", "n">>

\* get_latest_version, given what query_pypi_latest returned
get_latest_version(answer) == IF answer # <<>> THEN answer ELSE Unknown

Policies == {"latest", "max", "newest"}

TargetConflicts ==
    { WorkspaceConflict(p, "dev", "common", v[1], "qluster-sdk", v[2]) :
        p \in Packages, v \in {x \in PinTexts \X PinTexts : x[1] # x[2]} }

\* list(conflict.conflicts.values())
Values(conflict) == {conflict.conflicts[m] : m \in DOMAIN conflict.conflicts}

\* answers[i] is what the index returns for the query made for conflict i;
\* raised is the ValueError of an unknown policy
RECURSIVE TargetLoop(_, _, _, _)
TargetLoop(target_versions, conflicts, policy, answers) ==
    IF conflicts = <<>> THEN [raised |-> FALSE, target_versions |-> target_versions]
    ELSE LET conflict == Head(conflicts)
         IN IF policy = "latest"
            THEN TargetLoop(
                    MapSet(target_versions, conflict.package_name,
                           IF get_latest_version(Head(answers)) # Unknown
                           THEN get_latest_version(Head(answers))
                           ELSE PyMax(Values(conflict))),
                    Tail(conflicts), policy, Tail(answers))
            ELSE IF policy = "max"
            THEN TargetLoop(
                    MapSet(target_versions, conflict.package_name, PyMax(Values(conflict))),
                    Tail(conflicts), policy, Tail(answers))
            ELSE [raised |-> TRUE, target_versions |-> target_versions]

determine_target_versions(conflicts, policy, answers) ==
    TargetLoop(EmptyMap, conflicts, policy, answers)

TargetsInit ==
    /\ MainNotRun
    /\ \E cs \in BoundedSeq(TargetConflicts, MaxConflicts) :
        given \in [conflicts : {cs}, policy : Policies, answers : [1..Len(cs) -> Answers]]
    /\ returned = NoneVal
    /\ disk = <<>>
    /\ am = 0
    /\ queue = <<>>
    /\ pc = "call"
    /\ calls = <<>>
    /\ messages = <<>>
    /\ stderr_out = <<>>

DetermineTargets ==
    /\ pc = "call"
    /\ returned' = determine_target_versions(given.conflicts, given.policy, given.answers)
    /\ pc' = "returned"
    /\ UNCHANGED <<mainvars, given, disk, am, queue, calls, messages, stderr_out>>

SpecTargets == TargetsInit /\ [][DetermineTargets]_vars

\* a <= b in the order of code points, position by position
LexLeq(a, b) ==
    \/ a = b
    \/ \E i \in 1..Len(b) :
        /\ i <= Len(a) + 1
        /\ \A j \in 1..(i - 1) : a[j] = b[j]
        /\ i = Len(a) + 1 \/ Ord(a[i]) < Ord(b[i])

LexLargest(S, v) == v \in S /\ \A w \in S : LexLeq(w, v)

\* the target the policy gives for the i-th conflict taken alone
IsPolicyTarget(i, v) ==
    LET c == given.conflicts[i]
    IN IF given.policy = "latest" /\ given.answers[i] # <<>>
       THEN v = given.answers[i]
       ELSE LexLargest(Values(c), v)

TargetsReturned ==
    pc = "returned" /\ given.policy \in {"latest", "max"} /\ ~returned.raised

\* no later conflict of the list names the package of the i-th
LastOfPackage(i) ==
    \A j \in (i + 1)..Len(given.conflicts) :
        given.conflicts[j].package_name # given.conflicts[i].package_name

MaxClauses == 2

MarkerText ==
    <<"No", " ", "solution", " ", "found", " ", "when", " ", "resolving", " ", "dependencies">>

\* part occurs in text: Python's "part in text"
Contains(text, part) ==
    \E i \in 0..(Len(text) - Len(part)) : SubSeq(text, i + 1, i + Len(part)) = part

RECURSIVE Squeeze(_)
Squeeze(text) ==
    IF text = <<>> THEN <<>>
    ELSE IF IsSpace(Head(text)) THEN <<" ">> \o Squeeze(LStrip(Tail(text)))
    ELSE <<Head(text)>> \o Squeeze(Tail(text))

\* re.sub(r'\s+', ' ', stderr.strip()), line 142
Normalized(text) == Squeeze(Strip(text))

HasMarker_after_normalizing(text) == Contains(Normalized(text), MarkerText)

\* line 139, on the text as uv wrote it
HasMarker(text) == Contains(text, MarkerText)

\* heads of a diagnostic, by kind
HeadText(kind) ==
    CASE kind = "none"     -> <<>>
      [] kind = "other"    -> <<"Some", " ", "other", " ", "error">>
      [] kind = "partial"  -> <<"No", " ", "solution", " ", "found", ":", "\n">>
      [] kind = "wrapped"  -> <<"No", " ", "solution", " ", "found", " ", "when", "\n",
                                "resolving", " ", "dependencies", ":", "\n">>
      [] kind = "marker"   -> <<"\n">> \o MarkerText \o <<":", "\n", " ", " ">>
      [] kind = "prefixed" -> <<"error:", " ">> \o MarkerText \o <<":", " ">>

HeadKinds == {"none", "other", "partial", "wrapped", "marker", "prefixed"}

\* the standard error of a uv call with the given head and clauses
Stderr(head, clauses) ==
    [text |-> head # <<>> \/ clauses # <<>>, marker |-> HasMarker(head), clauses |-> clauses]

\* "Because common[dev] depends on flake8==7.2.0 and m2[e2] depends on p2==7.3.0"
ClausesA ==
    { Clause("A", "common", "dev", "flake8", "7.2.0", m2, e2, p2, "7.3.0", "", "", "", "") :
        m2 \in {"common", "qluster-sdk"}, e2 \in {"dev", "test"}, p2 \in Packages }

\* "Because common depends on flake8==7.2.0 and m2[e2] depends on flake8==7.3.0,
\*  we can conclude that tm1[dev] and m2[te2] are incompatible"
ClausesB ==
    { Clause("B", "common", "", "flake8", "7.2.0", m2, e2, "flake8", "7.3.0", tm1, "dev", m2, te2) :
        m2 \in {"common", "qluster-sdk"}, e2 \in {"dev", "test"},
        tm1 \in {"common", "web"}, te2 \in {"dev", "test"} }

ParserInit ==
    /\ MainNotRun
    /\ given \in [head : HeadKinds, clauses : BoundedSeq(ClausesA \cup ClausesB, MaxClauses)]
    /\ returned = NoneVal
    /\ disk = <<>>
    /\ am = 0
    /\ queue = <<>>
    /\ pc = "call"
    /\ calls = <<>>
    /\ messages = <<>>
    /\ stderr_out = <<>>

ParseDiagnostic ==
    /\ pc = "call"
    /\ returned' = parse_workspace_conflict(Stderr(HeadText(given.head), given.clauses))
    /\ pc' = "returned"
    /\ UNCHANGED <<mainvars, given, disk, am, queue, calls, messages, stderr_out>>

SpecParser == ParserInit /\ [][ParseDiagnostic]_vars

\* the head holds the marker phrase, unbroken
MarkerWritten == given.head \in {"marker", "prefixed"}

ParserReturned == pc = "returned"

(***************************************************************************)
(* C16.  The parser returns None exactly when the diagnostic lacks the     *)
(* marker "No solution found when resolving dependencies" and a list,      *)
(* possibly empty, whenever the marker is there.                           *)
(***************************************************************************)
C16_NoneIffMarkerAbsent ==
    ParserReturned =>
        /\ returned.none <=> ~MarkerWritten
        /\ returned.none => returned.list = <<>>

C16_Witness ==
    /\ ParserReturned
    /\ MarkerWritten
    /\ given.clauses # <<>>
    /\ ~returned.none
    /\ returned.list = <<>>

\* the extras (and, in the second phrasing, the members) a clause names agree
SameExtra(c) ==
    IF c.form = "A" THEN c.extra1 = c.extra2
    ELSE /\ c.tail_extra1 = c.tail_extra2
         /\ c.extra2 = c.tail_extra2
         /\ c.tail_member1 = c.member1
         /\ c.tail_member2 = c.member2

\* the clause says two members pin the same package differently under one extra
StatesConflict(c) ==
    /\ c.member1 # c.member2
    /\ c.pkg1 = c.pkg2
    /\ c.ver1 # c.ver2
    /\ SameExtra(c)

StatedConflict(c) ==
    WorkspaceConflict(c.pkg1, c.extra2, c.member1, c.ver1, c.member2, c.ver2)

\* the extras or the packages of the clause differ
Differs(c) == c.pkg1 # c.pkg2 \/ ~SameExtra(c)

(***************************************************************************)
(* C17.  For a diagnostic whose clause says that two members pin the same  *)
(* package differently under the same extra, the parser returns exactly    *)
(* one conflict holding both members, in whichever phrasing (or both) the  *)
(* diagnostic says it; a diagnostic whose clauses all have differing       *)
(* extras or packages gives no conflict.                                   *)
(***************************************************************************)
C17_OneConflictPerStatedConflict ==
    (ParserReturned /\ ~returned.none) =>
        /\ \A i \in 1..Len(given.clauses) :
              StatesConflict(given.clauses[i]) =>
                Cardinality({k \in 1..Len(returned.list) :
                                returned.list[k] = StatedConflict(given.clauses[i])}) = 1
        /\ (\A i \in 1..Len(given.clauses) : Differs(given.clauses[i])) => returned.list = <<>>

(***************************************************************************)
(* C18.  Every conflict the parser returns maps at least two distinct      *)
(* members to their versions.                                              *)
(***************************************************************************)
C18_AtLeastTwoMembers ==
    (ParserReturned /\ ~returned.none) =>
        \A k \in 1..Len(returned.list) : Cardinality(DOMAIN returned.list[k].conflicts) >= 2

(***************************************************************************)
(* parse_req on the text of a requirement line, character by character.    *)
(* re.match tries the alternatives of the pattern in order and keeps the   *)
(* first way to match the whole line: the name and the version take the    *)
(* longest run they can (a shorter one never helps, what follows could not *)
(* match), the extras and the operator are tried present before absent,    *)
(* and the operators in the order _OP lists them.                          *)
(***************************************************************************)
\* number of blanks around the operator
MaxSpaces == 1

Digits == {"0", "1", "2", "3", "4", "5", "6", "7", "8", "9"}

\* [A-Za-z0-9]
IsAlnum(c) == c \in Range(UpperChars) \cup Range(LowerChars) \cup Digits

\* [A-Za-z0-9_.-]
IsNameChar(c) == IsAlnum(c) \/ c \in {"_", ".", "-"}

StartsWith(s, prefix) == Len(s) >= Len(prefix) /\ SubSeq(s, 1, Len(prefix)) = prefix

\* s without its first n characters
Drop(s, n) == SubSeq(s, n + 1, Len(s))

\* length of the longest prefix of s made of name characters
RECURSIVE NameRun(_)
NameRun(s) == IF s # <<>> /\ IsNameChar(Head(s)) THEN 1 + NameRun(Tail(s)) ELSE 0

\* length of the longest prefix of s matching [^;\s]+
RECURSIVE TokenRun(_)
TokenRun(s) ==
    IF s # <<>> /\ ~IsSpace(Head(s)) /\ Head(s) # ";" THEN 1 + TokenRun(Tail(s)) ELSE 0

\* length of a prefix of s matching \[[^\]]+\], 0 if there is none
ExtrasRun(s) ==
    LET closing == {i \in 3..Len(s) : s[i] = "]"}
    IN IF s = <<>> \/ Head(s) # "[" \/ closing = {} \/ (Len(s) >= 2 /\ s[2] = "]") THEN 0
       ELSE CHOOSE i \in closing : \A j \in closing : i <= j

\* _OP, in the order of its alternatives
OpOrder == <<"==", "!=", "<=", ">=", "~=", "===", "<", ">">>

OpChars(op) ==
    CASE op = "==" -> <<"=", "=">>
      [] op = "!=" -> <<"!", "=">>
      [] op = "<=" -> <<"<", "=">>
      [] op = ">=" -> <<">", "=">>
      [] op = "~=" -> <<"~", "=">>
      [] op = "===" -> <<"=", "=", "=">>
      [] op = "<" -> <<"<">>
      [] op = ">" -> <<">">>
      [] op = "=" -> <<"=">>
      [] op = NoneVal -> <<>>

\* \s*(?P<ver>[^;\s]+)?\s*$ on r: the version group, if the rest matches
VerMatch(r) ==
    [ok |-> LStrip(Drop(LStrip(r), TokenRun(LStrip(r)))) = <<>>,
     ver |-> SubSeq(LStrip(r), 1, TokenRun(LStrip(r)))]

\* \s*op\s*(?P<ver>...)?\s*$ on t, for one alternative op (NoneVal: no operator)
OpMatch(t, op) ==
    IF StartsWith(LStrip(t), OpChars(op))
    THEN [ok |-> VerMatch(Drop(LStrip(t), Len(OpChars(op)))).ok, op |-> op,
          ver |-> VerMatch(Drop(LStrip(t), Len(OpChars(op)))).ver]
    ELSE [ok |-> FALSE, op |-> op, ver |-> <<>>]

\* the first alternative of ops, from the i-th on, that matches t; then none
RECURSIVE FirstOpMatch(_, _)
FirstOpMatch(t, i) ==
    IF i > Len(OpOrder) THEN OpMatch(t, NoneVal)
    ELSE IF OpMatch(t, OpOrder[i]).ok THEN OpMatch(t, OpOrder[i])
    ELSE FirstOpMatch(t, i + 1)

\* the groups of the match of the whole pattern on left, after the name of
\* length n: with the extras group first, without it otherwise
GroupsAfterName(left, n) ==
    IF ExtrasRun(Drop(left, n)) > 0 /\ FirstOpMatch(Drop(left, n + ExtrasRun(Drop(left, n))), 1).ok
    THEN [ok |-> TRUE, name |-> SubSeq(left, 1, n),
          extras |-> SubSeq(left, n + 1, n + ExtrasRun(Drop(left, n))),
          op |-> FirstOpMatch(Drop(left, n + ExtrasRun(Drop(left, n))), 1).op,
          ver |-> FirstOpMatch(Drop(left, n + ExtrasRun(Drop(left, n))), 1).ver]
    ELSE [ok |-> FirstOpMatch(Drop(left, n), 1).ok, name |-> SubSeq(left, 1, n),
          extras |-> <<>>,
          op |-> FirstOpMatch(Drop(left, n), 1).op,
          ver |-> FirstOpMatch(Drop(left, n), 1).ver]

\* re.match of lines 62-66 on left.strip()
ReqMatch(left) ==
    IF left = <<>> \/ ~IsAlnum(Head(left))
    THEN [ok |-> FALSE, name |-> <<>>, extras |-> <<>>, op |-> NoneVal, ver |-> <<>>]
    ELSE GroupsAfterName(left, NameRun(left))

\* position of the first ";" of s, 0 if there is none
FirstSemicolon(s) ==
    IF ";" \notin Range(s) THEN 0
    ELSE CHOOSE i \in 1..Len(s) : s[i] = ";" /\ \A j \in 1..(i - 1) : s[j] # ";"

SkipPrefixes ==
    { <<"f", "i", "l", "e", ":">>, <<"p", "a", "t", "h", ":">>, <<"g", "i", "t", "+">>,
      <<"h", "g", "+">>, <<"s", "v", "n", "+">> }

\* lines 68-70, m being the match on the part of s before its first ";"
ReqTuple(s, m) ==
    IF ~m.ok THEN [kind |-> "None"]
    ELSE [kind |-> "req", name |-> m.name, extras |-> m.extras,
          pinned |-> [set |-> m.op = "==" /\ m.ver # <<>>, ver |-> IF m.op = "==" THEN m.ver ELSE <<>>],
          marker |-> [set |-> FirstSemicolon(s) # 0,
                      text |-> IF FirstSemicolon(s) # 0 THEN Strip(Drop(s, FirstSemicolon(s))) ELSE <<>>]]

\* parse_req of the stripped line s
ParseStripped(s) ==
    IF s = <<>> \/ Head(s) = "#" THEN [kind |-> "None"]
    ELSE IF "@" \in Range(s) \/ \E pre \in SkipPrefixes : StartsWith(s, pre)
    THEN [kind |-> "SKIP"]
    ELSE ReqTuple(s, ReqMatch(Strip(IF FirstSemicolon(s) # 0
                                    THEN SubSeq(s, 1, FirstSemicolon(s) - 1) ELSE s)))

\* parse_req on the text of a line; [kind |-> "None"] is None
parse_req_text(req) == ParseStripped(Strip(req))

Blanks(n) == [i \in 1..n |-> " "]

\* the operators a requirement line can be written with; NoneVal is none
Operators == Range(OpOrder) \cup {NoneVal}

\* how the lines of the model are written: what precedes the name, the
\* extras, the blanks around the operator, the operator, the version and
\* the marker
Lines ==
    [lead : {<<>>, <<"#", " ">>, <<"g", "i", "t", "+">>},
     extras : {<<>>, <<"[", "x", "]">>},
     before : 0..MaxSpaces, op : Operators, after : 0..MaxSpaces,
     ver : {<<>>, <<"1", ".", "0">>},
     marker : {<<>>, <<" ", ";", " ", "m">>}]

\* the text of a line
LineText(l) ==
    l.lead \o <<"p", "k", "g">> \o l.extras \o Blanks(l.before) \o OpChars(l.op)
           \o Blanks(l.after) \o l.ver \o l.marker

ReqInit ==
    /\ MainNotRun
    /\ given \in Lines
    /\ returned = NoneVal
    /\ disk = <<>>
    /\ am = 0
    /\ queue = <<>>
    /\ pc = "call"
    /\ calls = <<>>
    /\ messages = <<>>
    /\ stderr_out = <<>>

ParseLine ==
    /\ pc = "call"
    /\ returned' = parse_req_text(LineText(given))
    /\ pc' = "returned"
    /\ UNCHANGED <<mainvars, given, disk, am, queue, calls, messages, stderr_out>>

SpecReq == ReqInit /\ [][ParseLine]_vars

(***************************************************************************)
(* C19.  parse_req sets the pinned version only for a requirement written  *)
(* with the operator ==: for a line written with !=, <=, >=, ~=, ===, < or *)
(* > or with no operator the pin is unset.                                 *)
(***************************************************************************)
C19_PinnedOnlyForExactEquality ==
    (pc = "returned" /\ returned.kind = "req" /\ given.op # "==") => ~returned.pinned.set

(***************************************************************************)
(* Runs of main() over manifests whose pinned packages have different      *)
(* normalized names, so that the index can answer for one and not for the  *)
(* other.                                                                  *)
(***************************************************************************)
LookupReqs ==
    { [name |-> Chars("F_.o"), extras |-> "", op |-> "==", ver |-> "1.0", marker |-> NoneVal],
      [name |-> Chars("pytest"), extras |-> "", op |-> "==", ver |-> "1.0", marker |-> NoneVal] }

LookupManifests ==
    {MkData(EmptyData, ds) : ds \in BoundedSeq([sec : Sections, req : LookupReqs], MaxDeps)}

LookupInit ==
    /\ data \in LookupManifests
    /\ args \in {a \in PlainArgs : ~a.yes}
    /\ env_CI = Str("")
    /\ reply = Str("n")
    /\ pc = "start"
    /\ groups = <<>>
    /\ is_optional_map = <<>>
    /\ pinned_packages = {}
    /\ latest_map = EmptyMap
    /\ plan = <<>>
    /\ gi = 1
    /\ rc = 0
    /\ calls = <<>>
    /\ report = <<>>
    /\ messages = <<>>
    /\ stderr_out = <<>>
    /\ exit_status = NoExit
    /\ died = FALSE
    /\ NotCalled

SpecLookup == LookupInit /\ [][Next]_vars

\* the index was asked and gave no version for the package
LookupFailed(n) ==
    /\ pc \notin {"start", "query"}
    /\ n \in pinned_packages
    /\ pep503(n) \notin DOMAIN latest_map

\* the call carries a requirement for the package
CallNames(c, n) == \E k \in 1..Len(c.reqs) : pep503(c.reqs[k].name) = pep503(n)

NoCallFor(n) == \A i \in 1..Len(calls) : ~CallNames(calls[i], n)

\* the run is over and nothing but index lookups went wrong in it
OnlyLookupsFailed == Finished /\ data.exists /\ \A i \in 1..Len(calls) : ~Failed(i)

HelpConflicts ==
    { WorkspaceConflict(p, e, MemberOrder[ij[1]], "7.2.0", MemberOrder[ij[2]], "7.3.0") :
        p \in Packages, e \in {"dev", "test"},
        ij \in {x \in (1..Len(MemberOrder)) \X (1..Len(MemberOrder)) : x[1] < x[2]} }

\* "  uv add --project {member} --optional {extra_name} {package}==<target_version>"
HelpCommand(member, extra_name, conflict) ==
    [kind |-> "command", member |-> member, extra |-> extra_name,
     package |-> conflict.package_name]

\* the lines of the inner loop of lines 249-251 for one member
RECURSIVE MemberHelp(_, _, _)
MemberHelp(member, extra_name, conflicts) ==
    IF conflicts = <<>> THEN <<>>
    ELSE (IF member \in DOMAIN Head(conflicts).conflicts
          THEN <<HelpCommand(member, extra_name, Head(conflicts))>>
          ELSE <<>>) \o MemberHelp(member, extra_name, Tail(conflicts))

\* the lines of the loop of lines 248-251
RECURSIVE HelpCommands(_, _, _)
HelpCommands(members, extra_name, conflicts) ==
    IF members = <<>> THEN <<>>
    ELSE MemberHelp(Head(members), extra_name, conflicts)
            \o HelpCommands(Tail(members), extra_name, conflicts)

\* everything show_manual_resolution_help prints, in order
show_manual_resolution_help(conflicts) ==
    << [kind |-> "intro", member |-> "", extra |-> "", package |-> ""],
       [kind |-> "suggested", member |-> "",
        extra |-> IF conflicts # <<>> THEN conflicts[1].extra_name ELSE "dev",
        package |-> ""] >>
    \o HelpCommands(Sorted(UNION {DOMAIN conflicts[i].conflicts : i \in 1..Len(conflicts)}),
                    IF conflicts # <<>> THEN conflicts[1].extra_name ELSE "dev",
                    conflicts)
    \o << [kind |-> "lock", member |-> "", extra |-> "", package |-> ""] >>

HelpInit ==
    /\ MainNotRun
    /\ given \in [conflicts : BoundedSeq(HelpConflicts, MaxConflicts)]
    /\ returned = NoneVal
    /\ disk = <<>>
    /\ am = 0
    /\ queue = <<>>
    /\ pc = "call"
    /\ calls = <<>>
    /\ messages = <<>>
    /\ stderr_out = <<>>

ShowHelp ==
    /\ pc = "call"
    /\ messages' = messages \o show_manual_resolution_help(given.conflicts)
    /\ pc' = "returned"
    /\ UNCHANGED <<mainvars, given, returned, disk, am, queue, calls, stderr_out>>

SpecHelp == HelpInit /\ [][ShowHelp]_vars

\* positions of the printed lines of one kind
LinesOf(kind) == {i \in 1..Len(messages) : messages[i].kind = kind}

\* position of a member in the sorted order of member names
MemberRank(m) == CHOOSE i \in 1..Len(MemberOrder) : MemberOrder[i] = m

\* the pairs (member, package) for which some conflict names both
NamedPairs ==
    UNION { {<<m, given.conflicts[i].package_name>> : m \in DOMAIN given.conflicts[i].conflicts} :
            i \in 1..Len(given.conflicts) }

(***************************************************************************)
(* C21.  The manual help prints, for every affected member and every       *)
(* package a conflict naming that member is about, exactly one command     *)
(* line naming that member and that package, the members in sorted order,  *)
(* and one re-lock instruction after all of them.                          *)
(***************************************************************************)
C21_OneLinePerMemberAndPackage ==
    pc = "returned" =>
        /\ \A mp \in NamedPairs :
              Cardinality({i \in LinesOf("command") :
                              messages[i].member = mp[1] /\ messages[i].package = mp[2]}) = 1
        /\ \A i \in LinesOf("command") : <<messages[i].member, messages[i].package>> \in NamedPairs
        /\ \A i, j \in LinesOf("command") :
              i < j => MemberRank(messages[i].member) <= MemberRank(messages[j].member)
        /\ LinesOf("lock") = {Len(messages)}

(***************************************************************************)
(* The plan loop of main() on its own (lines 548-555): the groups read     *)
(* from a manifest and an oracle mapping go in, the plan comes out.  The   *)
(* manifests here hold pinned records of several packages, so that a plan  *)
(* can hold different records of one group.                                *)
(***************************************************************************)
PlanReqs ==
    { [name |-> Chars("F_.o"), extras |-> "", op |-> "==", ver |-> "1.0", marker |-> NoneVal],
      [name |-> Chars("bar"), extras |-> "", op |-> "==", ver |-> "1.0", marker |-> NoneVal],
      [name |-> Chars("bar"), extras |-> "", op |-> ">=", ver |-> "1.0", marker |-> NoneVal],
      [name |-> Chars("pytest"), extras |-> "[x]", op |-> "==", ver |-> "2.0", marker |-> "m"] }

PlanManifests ==
    {MkData(EmptyData, ds) : ds \in BoundedSeq([sec : Sections, req : PlanReqs], MaxDeps)}

\* the mappings query_pypi_batch can return for the names of PlanReqs
LatestMaps ==
    UNION { [S -> Versions] : S \in SUBSET {pep503(r.name) : r \in PlanReqs} }

PlanInit ==
    /\ NotCalled
    /\ data \in PlanManifests
    /\ args = [dry_run |-> FALSE, sync |-> FALSE, yes |-> FALSE,
               only_groups |-> <<"">>, pre |-> FALSE, index |-> <<>>]
    /\ env_CI = Str("")
    /\ reply = Str("n")
    /\ groups = gather_direct(data).out
    /\ is_optional_map = gather_direct(data).is_optional
    /\ pinned_packages = PinnedPackages(groups)
    /\ latest_map \in LatestMaps
    /\ plan = <<>>
    /\ gi = 1
    /\ rc = 0
    /\ report = <<>>
    /\ exit_status = NoExit
    /\ died = FALSE
    /\ pc = "plan"
    /\ calls = <<>>
    /\ messages = <<>>
    /\ stderr_out = <<>>

BuildThePlan ==
    /\ pc = "plan"
    /\ plan' = BuildPlan(groups, latest_map)
    /\ pc' = "planned"
    /\ UNCHANGED <<inputs, apart, groups, is_optional_map, pinned_packages, latest_map,
                   gi, rc, report, exit_status, died, calls, messages, stderr_out>>

SpecPlan == PlanInit /\ [][BuildThePlan]_vars

\* the places <<group index, record index>> of the records that belong in the plan
PlanPositions ==
    {p \in (1..Len(groups)) \X (1..MaxDeps) :
        /\ p[2] <= Len(groups[p[1]].val)
        /\ InPlan(groups[p[1]].val[p[2]], latest_map)}

\* place p comes before place q in group iteration order, then record order
PlaceBefore(p, q) == p[1] < q[1] \/ (p[1] = q[1] /\ p[2] < q[2])

\* the k-th place of PlanPositions in that order
PlaceAt(k) ==
    CHOOSE p \in PlanPositions :
        Cardinality({q \in PlanPositions : PlaceBefore(q, p)}) = k - 1

\* C22: the plan is fully determined by the groups read from the manifest and
\* the oracle's answers (so two runs over the same manifest and answers build
\* the same plan), and it is order-preserving: its k-th entry is the k-th
\* record to update counted in group iteration order and, within a group, in
\* the order of the records of the manifest.
C22_PlanOrderPreserving ==
    pc = "planned" =>
        /\ Len(plan) = Cardinality(PlanPositions)
        /\ \A k \in 1..Len(plan) :
              LET p == PlaceAt(k)
                  d == groups[p[1]].val[p[2]]
              IN plan[k] = [g |-> groups[p[1]].key, d |-> d,
                            latest |-> latest_map[pep503(d.name)]]

\* a plan with two different records of one group
C22_Witness ==
    /\ pc = "planned"
    /\ Len(plan) = 2
    /\ plan[1].g = plan[2].g
    /\ plan[1].d.name # plan[2].d.name

(***************************************************************************)
(* The add calls of align_workspace_members (lines 310-373)                *)
(***************************************************************************)
\* positions of the add calls
AlignAdds == {i \in 1..Len(calls) : calls[i].cmd = "add"}

\* C23: every add call of the alignment names exactly one member after
\* --project, a member the resolution lists as affected, and carries
\* --frozen; the calls come in ascending order of member name: no call for a
\* member follows a call for a member that sorts later.
C23_AddCallsFrozenInMemberOrder ==
    \A i \in AlignAdds :
        /\ SubSeq(calls[i].argv, 1, 3) = <<"uv", "add", "--project">>
        /\ CallMember(calls[i]) \in given.resolution.affected_members
        /\ Cardinality({k \in 1..Len(calls[i].argv) : calls[i].argv[k] = "--project"}) = 1
        /\ HasFlag(calls[i], "--frozen")
        /\ \A j \in AlignAdds :
              i < j => MemberRank(CallMember(calls[i])) <= MemberRank(CallMember(calls[j]))

\* add calls were issued for three members, one after the other
C23_Witness ==
    /\ pc = "done"
    /\ {CallMember(calls[i]) : i \in AlignAdds} = Members

\* the declaration site an aligning add call writes to
CallSite(c) ==
    IF HasFlag(c, "--optional") THEN [kind |-> "optional", name |-> c.argv[Len(c.argv)]]
    ELSE IF HasFlag(c, "--group") THEN [kind |-> "group", name |-> c.argv[Len(c.argv)]]
    ELSE [kind |-> "main", name |-> ""]

\* the declaration site of a package in the manifest of a member
SiteOf(m, pkg) ==
    LET location == find_package_location_in_member(disk[m], pkg)
    IN IF location.none THEN [kind |-> "main", name |-> ""]
       ELSE IF Head(location.text) = "group:"
       THEN [kind |-> "group", name |-> location.text[2]]
       ELSE [kind |-> "optional", name |-> location.text[1]]

\* the conflicts of the resolution that name member m
NamingConflicts(m) ==
    {i \in 1..Len(given.resolution.conflicts) :
        m \in DOMAIN given.resolution.conflicts[i].conflicts}

\* the specifier package==target of the i-th conflict
SpecifierOf(i) ==
    [name |-> given.resolution.conflicts[i].package_name,
     ver |-> given.resolution.target_versions[given.resolution.conflicts[i].package_name]]

\* the add calls issued for member m that carry the specifier of conflict i
CallsCarrying(m, i) ==
    {j \in AlignAdds : /\ CallMember(calls[j]) = m
                       /\ SpecifierOf(i) \in Range(calls[j].reqs)}

\* all add calls of the alignment were issued
StagingDone == \E j \in 1..Len(calls) : calls[j].cmd = "lock"

\* C24: a member gets at most one add call per declaration site; an add call
\* for member m and site s carries the specifiers of exactly the conflicts
\* that name m and whose package is declared at s, as many specifiers as
\* there are such conflicts; and once all add calls are issued, the
\* specifier of every pair (member, conflict naming it) is in exactly one of
\* the member's calls, the one for the site of the package.
C24_OneCallPerMemberAndSite ==
    /\ \A i, j \in AlignAdds :
          (i # j /\ CallMember(calls[i]) = CallMember(calls[j]))
              => CallSite(calls[i]) # CallSite(calls[j])
    /\ \A j \in AlignAdds :
          LET m == CallMember(calls[j])
              here == {i \in NamingConflicts(m) :
                         SiteOf(m, given.resolution.conflicts[i].package_name) = CallSite(calls[j])}
          IN /\ Len(calls[j].reqs) = Cardinality(here)
             /\ Range(calls[j].reqs) = {SpecifierOf(i) : i \in here}
    /\ StagingDone =>
          \A m \in given.resolution.affected_members : \A i \in NamingConflicts(m) :
              /\ Cardinality(CallsCarrying(m, i)) = 1
              /\ \A j \in CallsCarrying(m, i) :
                    CallSite(calls[j]) = SiteOf(m, given.resolution.conflicts[i].package_name)

\* one member got two calls for two sites, and some call carries the
\* specifiers of two conflicts
C24_Witness ==
    /\ StagingDone
    /\ \E i, j \in AlignAdds :
          /\ i # j
          /\ CallMember(calls[i]) = CallMember(calls[j])
          /\ CallSite(calls[i]).kind = "main"
          /\ CallSite(calls[j]).kind = "group"
    /\ \E j \in AlignAdds :
          /\ CallSite(calls[j]).kind = "optional"
          /\ Cardinality(Range(calls[j].reqs)) = 2

(***************************************************************************)
(* find_package_location_in_member called on its own (lines 255-302).  The *)
(* member manifest is rewritten between lookups; its dependency groups may *)
(* hold include-group tables.                                              *)
(***************************************************************************)
SiteReqs == {MemberReq("Flake8", "7.2.0"), MemberReq("pytest", "8.0.0")}

SiteSections ==
    { [table |-> "dependencies", key |-> NoneVal],
      [table |-> "optional", key |-> "dev"],
      [table |-> "optional", key |-> "test"],
      [table |-> "groups", key |-> "dev"],
      [table |-> "groups", key |-> "lint"] }

SiteDecls ==
    [sec : SiteSections, req : SiteReqs]
        \cup [sec : {x \in SiteSections : x.table = "groups"}, req : {IncludeGroup("lint")}]

SiteManifests ==
    {MkData(EmptyData, ds) : ds \in BoundedSeq(SiteDecls, MaxDeps)}
        \cup {MissingData, BrokenData}

\* what an edit of the member's pyproject.toml can leave on disk
Rewritten ==
    {MkData(EmptyData, <<dcl>>) : dcl \in SiteDecls} \cup {MissingData, BrokenData}

SiteInit ==
    /\ MainNotRun
    /\ given \in [member : {MemberOrder[1]}, package_name : Packages]
    /\ disk \in [{MemberOrder[1]} -> SiteManifests]
    /\ returned = NoneVal
    /\ am = 0
    /\ queue = <<>>
    /\ pc = "call"
    /\ calls = <<>>
    /\ messages = <<>>
    /\ stderr_out = <<>>

\* one call of the function: it loads the file anew
LookupSite ==
    /\ pc = "call"
    /\ returned' = find_package_location_in_member(disk[given.member], given.package_name)
    /\ pc' = "returned"
    /\ UNCHANGED <<mainvars, given, disk, am, queue, calls, messages, stderr_out>>

\* the manifest changes on disk before the next call
RewriteManifest ==
    /\ pc = "returned"
    /\ \E d \in Rewritten : disk' = [disk EXCEPT ![given.member] = d]
    /\ pc' = "call"
    /\ UNCHANGED <<mainvars, given, returned, am, queue, calls, messages, stderr_out>>

SpecSite == SiteInit /\ [][LookupSite \/ RewriteManifest]_vars

\* the requirement lines of a list
TextLines(deps) == SelectSeq(deps, IsText)

\* the lists of a table that declare the normalized name
Declaring(table, norm_name) ==
    {i \in 1..Len(table) : DeclaresPackage(TextLines(table[i].val), norm_name)}

\* the Declaration Site of the package in manifest d: main when the manifest
\* is missing or unreadable, when the main list declares the name, or when
\* no list does; else the first optional list declaring it; else the first
\* dependency group declaring it
DeclarationSite(d, package_name) ==
    LET n == pep503(Chars(package_name))
        o == Declaring(d.optional, n)
        g == Declaring(d.groups, n)
    IN IF ~d.exists \/ Unreadable(d) THEN LocationNone
       ELSE IF DeclaresPackage(TextLines(d.dependencies), n) THEN LocationNone
       ELSE IF o # {}
       THEN [raised |-> FALSE, none |-> FALSE,
             text |-> <<d.optional[CHOOSE i \in o : \A j \in o : i <= j].key>>]
       ELSE IF g # {}
       THEN [raised |-> FALSE, none |-> FALSE,
             text |-> <<"group:", d.groups[CHOOSE i \in g : \A j \in g : i <= j].key>>]
       ELSE LocationNone

\* C25: a lookup returns the Declaration Site of the package in the manifest
\* as it is on disk at the time of the lookup: names are matched normalized,
\* the main list is searched first, then the optional-dependency lists, then
\* the dependency groups, the first hit wins, and a package found nowhere or
\* a missing or unreadable manifest gives main.
C25_SiteIsFirstHitOnDisk ==
    pc = "returned" =>
        returned = DeclarationSite(disk[given.member], given.package_name)

(***************************************************************************)
(* The targets of a package named by several conflicts (lines 191-212)     *)
(***************************************************************************)
\* the conflicts of the list that name package p
ConflictsOf(p) == {i \in 1..Len(given.conflicts) : given.conflicts[i].package_name = p}

\* the pins of all members of all conflicts naming p
AllPinsOf(p) == UNION {Values(given.conflicts[i]) : i \in ConflictsOf(p)}

\* the policy falls back on the existing pins for package p
UsesExistingPins(p) ==
    \/ given.policy = "max"
    \/ given.policy = "latest" /\ \A i \in ConflictsOf(p) : given.answers[i] = <<>>

\* C26: the returned mapping has exactly one entry per package named by the
\* conflicts, and under max, or under latest when the index has no answer,
\* the target of a package is the lexicographically largest pin among all
\* members of all conflicts that name the package.
C26_TargetIsLargestPinOfPackage ==
    TargetsReturned =>
        /\ DOMAIN returned.target_versions =
              {given.conflicts[i].package_name : i \in 1..Len(given.conflicts)}
        /\ \A p \in DOMAIN returned.target_versions :
              UsesExistingPins(p) => LexLargest(AllPinsOf(p), returned.target_versions[p])

(***************************************************************************)
(* The group flag of the add calls of main() (lines 581-591)               *)
(***************************************************************************)
\* the table of the manifest the records of group k were read from: a
\* dependency-groups list is read after an optional-dependencies list of
\* the same name and replaces its records
Origin(k) ==
    IF k = NoneVal THEN "main"
    ELSE IF \E i \in 1..Len(data.groups) : data.groups[i].key = k /\ data.groups[i].val # <<>>
    THEN "groups"
    ELSE "optional"

\* C27: the i-th add call of a run is the call for the i-th group with
\* updates; it carries --optional <name> exactly when the group's records
\* came from optional-dependencies, --group <name> exactly when they came
\* from dependency-groups, neither for the main group, and never both.
C27_FlagMatchesOrigin ==
    \A i \in 1..Len(AddCalls) :
        /\ i <= Len(PendingGroups)
        /\ LET c == AddCalls[i]
               k == PendingGroups[i]
           IN /\ HasFlag(c, "--optional") <=> Origin(k) = "optional"
              /\ HasFlag(c, "--group") <=> Origin(k) = "groups"
              /\ Origin(k) # "main" => CallGroup(c) = k
              /\ ~(HasFlag(c, "--optional") /\ HasFlag(c, "--group"))

\* a run issued a call with --optional, one with --group and one with neither
C27_Witness ==
    /\ Finished
    /\ \E i \in 1..Len(AddCalls) : HasFlag(AddCalls[i], "--optional")
    /\ \E i \in 1..Len(AddCalls) : HasFlag(AddCalls[i], "--group")

(***************************************************************************)
(* query_pypi_batch called on its own (lines 465-485).  The worker queries *)
(* complete in any order; the loop over as_completed takes each result as  *)
(* it arrives.  given.resp[n] is what query_pypi_latest returns for the    *)
(* name n as it is spelled in the manifest (NoneVal on any failure).       *)
(***************************************************************************)
BatchNames == {Chars("F_.o"), Chars("f-o"), Chars("bar"), Chars("pytest")}

BatchInit ==
    /\ MainNotRun
    /\ \E S \in SUBSET BatchNames :
        given \in [package_names : {S}, resp : [S -> Versions \cup {NoneVal}]]
    /\ returned = EmptyMap
    /\ disk = <<>>
    /\ am = 0
    /\ queue = <<>>
    /\ pc = "waiting"
    /\ calls = <<>>
    /\ messages = <<>>
    /\ stderr_out = <<>>

\* one future completes and the loop of lines 478-483 takes its result;
\* queue lists the names whose futures have completed
FutureCompletes ==
    /\ pc = "waiting"
    /\ \E name \in given.package_names \ Range(queue) :
        /\ returned' = query_pypi_batch(returned, <<name>>, given.resp)
        /\ queue' = Append(queue, name)
    /\ UNCHANGED <<mainvars, given, disk, am, pc, calls, messages, stderr_out>>

\* line 485
BatchReturns ==
    /\ pc = "waiting"
    /\ Range(queue) = given.package_names
    /\ pc' = "returned"
    /\ UNCHANGED <<mainvars, given, returned, disk, am, queue, calls, messages, stderr_out>>

SpecBatch == BatchInit /\ [][FutureCompletes \/ BatchReturns]_vars

\* the names whose query returned a version
Answered == {n \in given.package_names : given.resp[n] # NoneVal}

\* C28: whatever the order in which the queries complete, the batch returns
\* the mapping the answers determine: its keys are exactly the normalized
\* names whose query returned a version, and each such name is mapped to the
\* version its query returned; a failed query only leaves its own entry out.
C28_MappingIndependentOfOrder ==
    pc = "returned" =>
        /\ DOMAIN returned = {pep503(n) : n \in Answered}
        /\ \A n \in Answered : returned[pep503(n)] = given.resp[n]

(***************************************************************************)
(* gather_direct called on its own (lines 76-117)                          *)
(***************************************************************************)
GatherInit ==
    /\ MainNotRun
    /\ given \in [data : Manifests \ {MissingData}]
    /\ returned = NoneVal
    /\ disk = <<>>
    /\ am = 0
    /\ queue = <<>>
    /\ pc = "call"
    /\ calls = <<>>
    /\ messages = <<>>
    /\ stderr_out = <<>>

GatherDirect ==
    /\ pc = "call"
    /\ returned' = gather_direct(given.data)
    /\ pc' = "returned"
    /\ UNCHANGED <<mainvars, given, disk, am, queue, calls, messages, stderr_out>>

SpecGather == GatherInit /\ [][GatherDirect]_vars

\* the returned groups hold record rec under key k
RecordIn(k, rec) ==
    \E i \in 1..Len(returned.out) :
        returned.out[i].key = k /\ rec \in Range(returned.out[i].val)

\* the returned flags say group k is of the given kind
KindIs(k, isOpt) ==
    \E i \in 1..Len(returned.is_optional) :
        returned.is_optional[i].key = k /\ returned.is_optional[i].val = isOpt

\* C29: gather_direct loses no declaration: every requirement of the main
\* list is a record of the main group, every requirement of an
\* optional-dependencies list is a record of a group of that name flagged
\* optional, and every requirement of a dependency-groups list is a record
\* of a group of that name flagged not optional, also when an optional list
\* and a dependency group have the same name.
C29_NoDeclarationLost ==
    pc = "returned" =>
        /\ \A r \in Range(given.data.dependencies) : RecordIn(NoneVal, DepRecord(r))
        /\ \A e \in Range(given.data.optional) : \A r \in Range(e.val) :
              RecordIn(e.key, DepRecord(r)) /\ KindIs(e.key, TRUE)
        /\ \A e \in Range(given.data.groups) : \A r \in Range(e.val) :
              RecordIn(e.key, DepRecord(r)) /\ KindIs(e.key, FALSE)

(***************************************************************************)
(* Termination.  A run is a run of main() or, since main() never starts    *)
(* it, a call of align_workspace_members on its own.  Every external call  *)
(* returns, so the step the program is at is eventually taken: weak        *)
(* fairness of the steps of main() and of the steps of the alignment.      *)
(***************************************************************************)
\* manifests with no, one or two pinned requirements, in any lists
RunDecls == {dcl \in Decls : dcl.req.op = "=="}

RunManifests ==
    {MissingData, EmptyData}
        \cup {MkData(EmptyData, <<a>>) : a \in RunDecls}
        \cup {MkData(EmptyData, <<a, b>>) : a \in RunDecls, b \in RunDecls}

RunArgs ==
    [dry_run : BOOLEAN, sync : BOOLEAN, yes : {FALSE},
     only_groups : {<<"">>, <<"main">>}, pre : {FALSE}, index : {<<>>}]

\* the state main() starts in
MainInit ==
    /\ data \in RunManifests
    /\ args \in RunArgs
    /\ env_CI = Str("")
    /\ reply = Str("n")
    /\ pc = "start"
    /\ groups = <<>>
    /\ is_optional_map = <<>>
    /\ pinned_packages = {}
    /\ latest_map = EmptyMap
    /\ plan = <<>>
    /\ gi = 1
    /\ rc = 0
    /\ calls = <<>>
    /\ report = <<>>
    /\ messages = <<>>
    /\ stderr_out = <<>>
    /\ exit_status = NoExit
    /\ died = FALSE
    /\ NotCalled

RunsInit == MainInit \/ AlignInit

RunsNext == Next \/ AlignNext

\* align_workspace_members has a step to take: ENABLED <<AlignNext>>_vars
AlignRunning == pc \in {"align", "staging", "align_sync"}

\* weak fairness of AlignNext, with ENABLED <<AlignNext>>_vars written out
\* as AlignRunning
AlignFair == []<>(~AlignRunning) \/ []<><<AlignNext>>_vars

SpecRuns == RunsInit /\ [][RunsNext]_vars /\ WF_vars(Next) /\ AlignFair

NothingToDoLines ==
    {"No direct dependencies found.",
     "No matching groups after --only-groups.",
     "No pinned dependencies (==version) found. Nothing to update.",
     "All pinned dependencies are already at their latest versions. Nothing to do."}

DryRunLines ==
    {"Dry run: all pinned dependencies are already at their latest versions.",
     "(No files changed.)"}

DoneLines ==
    {"Done. pyproject.toml updated (run uv sync to update environment).",
     "Done. pyproject.toml updated and environment synced."}

\* the outcome a run has reached, "none" while it has none
Outcome ==
    IF exit_status # NoExit
    THEN IF exit_status # 0 THEN "FAILED"
         ELSE IF messages = <<>> THEN "none"
         ELSE IF messages[Len(messages)] \in NothingToDoLines THEN "nothing-to-do"
         ELSE IF messages[Len(messages)] \in DryRunLines THEN "dry-run report"
         ELSE IF messages[Len(messages)] \in DoneLines THEN "SUCCESS"
         ELSE "none"
    ELSE IF returned = "True" THEN "SUCCESS"
    ELSE IF returned = "False" THEN "FAILED"
    ELSE IF ManualHelpShown THEN "DECLINED"
    ELSE "none"

\* the j-th call repeats the i-th
SameCommand(i, j) == calls[i].argv = calls[j].argv /\ calls[i].reqs = calls[j].reqs

\* what holds at every moment of a run
OneCallEach ==
    /\ \A i, j \in GroupAddIdx : i # j => CallGroup(calls[i]) # CallGroup(calls[j])
    /\ \A i, j \in MemberAddIdx :
          (i # j /\ CallMember(calls[i]) = CallMember(calls[j]))
              => CallSite(calls[i]) # CallSite(calls[j])
    /\ \A i, j \in 1..Len(calls) : (i < j /\ Failed(i)) => ~SameCommand(i, j)
    /\ \A cmd \in {"version", "lock", "sync"} : Cardinality(Idx(cmd)) <= 1
    /\ IF pc = "done"
       THEN Outcome \in {"nothing-to-do", "dry-run report", "SUCCESS", "DECLINED", "FAILED"}
       ELSE Outcome = "none"

====
